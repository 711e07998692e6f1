------------------------------- MODULE MCTeam -------------------------------
(***************************************************************************)
(* Team for TLC: two CLs, and every combination of what the user and the   *)
(* context may ask for.                                                    *)
(***************************************************************************)
EXTENDS Team

AllParams == [single : BOOLEAN, storage : BOOLEAN, ep_map : BOOLEAN,
              service : BOOLEAN, need_id : BOOLEAN, external : BOOLEAN,
              ctx_service : BOOLEAN,
              failing : SUBSET Cls, slow : SUBSET Cls]

\* The CLs that need time come before those that may fail, up to one that is both;
\* or the first CL may fail and the second needs time.
MCParams == {p \in AllParams :
               \/ \E k \in Cls : p.slow = 0 .. k /\ p.failing = k .. NCls - 1
               \/ p.failing = {0} /\ p.slow = {1}}
=============================================================================
