-------------------------------- MODULE MCApp --------------------------------
(* App with Codex and Gemini, a request for each, one edit, and slots for two   *)
(* handlers of which one may read its body; and init, which knows two           *)
(* providers, each with a table and an alias.                                   *)
EXTENDS InitCommand
CONSTANTS r1, r2, n1, n2, t1, t2, a1, a2
MCServes == [r \in Requests |-> IF r = r1 THEN "codex" ELSE "gemini"]
MCSorted == <<"codex", "gemini">>
MCOne == <<"codex">>
MCOwner == [e \in {t1, t2, a1, a2} |-> IF e \in {t1, a1} THEN n1 ELSE n2]
MCBases == {NoBase, [exists |-> TRUE, has |-> {t1, a1, t2}, auth |-> "file"]}
MCCommandLines ==
  {[NoFlags EXCEPT !.interactive = TRUE],
   [interactive |-> TRUE, dryRun |-> TRUE, selected |-> {n1}, asked |-> {t1},
    replace |-> {t1}, auth |-> "none"],
   [interactive |-> FALSE, dryRun |-> FALSE, selected |-> {n1}, asked |-> {t1, a1},
    replace |-> {t1}, auth |-> "keep"],
   [interactive |-> FALSE, dryRun |-> FALSE, selected |-> {n2}, asked |-> {t2, a2},
    replace |-> {t2}, auth |-> "file"]}
MCNoCommandLines == {}
=============================================================================
