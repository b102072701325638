---------------------------- MODULE NetworkImport ----------------------------
(***************************************************************************)
(* The importer registry and its dispatcher (importers.py parse_network).  *)
(* An uploaded file is [format, quoted, content]: the format it really is  *)
(* in, whether the word "network" stands in its text, and what its parser  *)
(* reads.  A parser given another format's text finds no buses, no circuit *)
(* or no syntax it knows, and raises.                                      *)
(***************************************************************************)
EXTENDS CimImport, DssImport

Formats == {"json", "raw", "rawx", "cim", "dss"}

\* The one alias that is registered.
Resolve(token) == IF token = "xml" THEN "cim" ELSE token

Sniff(file) ==
    CASE file.format \in {"json", "rawx"} -> IF file.quoted THEN "rawx" ELSE "json"
      [] file.format = "cim" -> "cim"
      [] file.format = "dss" -> "dss"
      [] file.format = "raw" -> "raw"

\* The format asked for, else the file name's extension, else a guess.
Token(asked, extension, file) ==
    IF asked # Absent THEN asked ELSE IF extension # Absent THEN extension ELSE Sniff(file)

Parse(asked, extension, file) ==
    LET name == Resolve(Token(asked, extension, file))
    IN IF name \notin Formats \/ name # file.format THEN ImportError
       ELSE CASE name = "json" -> Imported(file.content)
              [] name = "raw" -> FromRaw(file.content)
              [] name = "rawx" -> FromRawx(file.content)
              [] name = "cim" -> FromCim(file.content)
              [] name = "dss" -> FromDss(file.content)
==============================================================================
