------------------------------ MODULE MCForms -------------------------------
(* KeyCode, ConnForms and WgAlloc share nothing; small instances of the    *)
(* three are explored side by side, one of them away from home at a time.  *)
EXTENDS KeyCode, ConnForms, WgAlloc, TLC

CONSTANTS c1, c2, c3

-----------------------------------------------------------------------------
(* KeyCode, at the full width of every number.                             *)

MCRandoms == {<<0, 0, 0, 0, 0, 0>>, <<255, 128, 127, 1, 254, 85>>}
MCDays == {-32768, 256, 32767}
\* "FRKN" and "A0Z9".
MCDistributors == {<<70, 82, 75, 78>>, <<65, 48, 90, 57>>}

\* A stand-in for the HMAC that depends on every byte and its place, and under
\* which the codes end in many different symbols.
MCSign(data) ==
  [k \in 1..3 |-> FoldLeft(LAMBDA sum, b : (sum * 31 + k * b + 97) % 256, k, data)]

MCSlips == 0..31

HomeCode == Text(New(<<0, 0, 0, 0, 0, 0>>, 256, <<70, 82, 75, 78>>))
CodeHome == key.code = HomeCode /\ typed = HomeCode

-----------------------------------------------------------------------------
(* ConnForms: custom names that differ in case only, that are prefixes of   *)
(* one another, and that begin with the word custom.                       *)

Letters == {"custom", "dev", "experimental", "e", "E", "u"}
MCLowerOf == [x \in Letters |-> IF x = "E" THEN "e" ELSE x]
MCTexts == {<<>>} \cup {<<x>> : x \in Letters}
           \cup {<<x, y>> : x \in {"custom", "e", "E"}, y \in {"e", "E", "u", "dev"}}

FormsHome == conn = made /\ made.env.name = <<"dev">> /\ made.proto.tag = "Vmess"

-----------------------------------------------------------------------------
(* WgAlloc.                                                                *)

WgHome == at = [c \in Conns |-> "new"] /\ net = [address |-> 0, cidr |-> 0]
          /\ faults = 0 /\ ~sync.busy

MCSymmetry == Permutations({c1, c2, c3})

-----------------------------------------------------------------------------
OneAway == \/ CodeHome /\ FormsHome
           \/ CodeHome /\ WgHome
           \/ FormsHome /\ WgHome

MCInit == CodeInit /\ FormsInit /\ WgInit /\ OneAway

MCNext ==
  \/ FormsHome /\ WgHome /\ CodeNext /\ UNCHANGED <<formsVars, wgVars>>
  \/ CodeHome /\ WgHome /\ FormsNext /\ UNCHANGED <<codeVars, wgVars>>
  \/ CodeHome /\ FormsHome /\ WgNext /\ UNCHANGED <<codeVars, formsVars>>

MCSpec == MCInit /\ [][MCNext]_<<codeVars, formsVars, wgVars>>
=============================================================================
