SPECIFICATION ExtractSpec
CONSTANTS
  Elements <- MCElements
  AttributesOf <- MCAttributesOf
  Contents <- MCContents
  MaxTokens = 5
  MaxAttributes = 3
  Texts <- MCTexts
  Pieces <- MCPieces
  Targets <- MCTargets
  Pages <- MCPages
  HeadingIds <- MCHeadingIds
  MaxEvents = 6
  MaxDepth = 3
INVARIANTS HtmlLinks EnginesAgree MarkdownLinks MarkdownAnchors HeadingsTellApart
CHECK_DEADLOCK FALSE
