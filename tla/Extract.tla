------------------------------- MODULE Extract -------------------------------
\* extract/mod.rs: Extractor::extract reads a document by its file type: HTML
\* by the engine of the user's choice (HtmlExtract has both of them read the
\* page), Markdown by a parser of its own, which hands pieces of HTML on to
\* html5gum.
EXTENDS HtmlExtract, MarkdownExtract

VARIABLE file_type

extractVars == <<page, gum, ever, text, md, frags, counter, file_type>>

\* One Extractor; what a type of document does not ask for is fixed.
ExtractInit ==
  /\ HtmlInit /\ MarkdownInit
  /\ gum.include_verbatim = md.include_verbatim
  /\ file_type \in {"Html", "Markdown"}
  /\ file_type = "Html" => ~md.include_wikilinks
  /\ file_type = "Markdown" => page.told

ExtractNext ==
  \/ file_type = "Html" /\ HtmlNext /\ UNCHANGED <<markdownVars, file_type>>
  \/ file_type = "Markdown" /\ MarkdownNext /\ UNCHANGED <<htmlVars, file_type>>

\* The invariant the proofs use; TLC checks that it holds.
ExtractInv == HtmlInv /\ MarkdownInv

ExtractSpec == ExtractInit /\ [][ExtractNext]_extractVars

=============================================================================
