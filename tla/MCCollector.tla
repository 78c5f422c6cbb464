---------------------------- MODULE MCCollector ----------------------------
(* A page, standard input, a file, a directory and a glob, each with          *)
(* something that goes wrong; every combination of the options.               *)
EXTENDS Collector

CONSTANTS url, stdin, file, dir, glob,
          page, piped, named, d1, d2, dBroken, dBinary, g1, gLink, gBroken

MCKind == [i \in Inputs |->
              CASE i = url -> "url" [] i = stdin -> "stdin"
                [] i = file -> "file" [] i = dir -> "dir" [] OTHER -> "glob"]

Text(i, links) ==
    [of |-> i, what |-> "file", listed |-> TRUE, hidden |-> FALSE,
     excluded |-> FALSE, binary |-> FALSE, links |-> links]

MCDoc == [d \in Docs |->
    CASE d = page -> Text(url, {"root", "local", "scheme"})
      [] d = piped -> Text(stdin, {"absolute", "root", "local", "scheme"})
      [] d = named -> [Text(file, {"local", "root"}) EXCEPT !.listed = FALSE]
      [] d = d1 -> Text(dir, LinkKinds)
      [] d = d2 -> [Text(dir, {"local"}) EXCEPT !.hidden = TRUE]
      [] d = dBroken -> [Text(dir, {}) EXCEPT !.what = "broken"]
      [] d = dBinary -> [Text(dir, {}) EXCEPT !.binary = TRUE]
      [] d = g1 -> [Text(glob, {"local"}) EXCEPT !.listed = FALSE]
      [] d = gLink -> [Text(glob, {"root"}) EXCEPT !.what = "symlink"]
      [] d = gBroken -> [Text(glob, {}) EXCEPT !.what = "broken"]]
============================================================================
