---------------------------- MODULE MCDeployment ----------------------------
(* Two processes, two keys and three migrations: a module that moves data, *)
(* the SQL file that adds the column for the key's check value, and a      *)
(* module that is DDL.  And the mail settings with two servers, two saves  *)
(* and one mail under way at a time, and a transport made from a host and  *)
(* a password.  The two modules share no state, so a behaviour takes the   *)
(* steps of one while the other stays as it was installed.                 *)
EXTENDS Deployment, MailSettings, TLC
CONSTANTS p1, p2, k1, k2, a1, a2, x1
VARIABLE part
Symm == Permutations({p1, p2}) \cup Permutations({k1, k2}) \cup Permutations({a1, a2})
allVars == <<vars, msVars, part>>
PartsInit ==
    /\ Init /\ MSInit
    /\ \/ part = "deployment" /\ settings.cols[Host] = 0
       \/ part = "mail settings" /\ secret = None /\ \A f \in Files : recorded[f] = None
PartsNext ==
    \/ part = "deployment" /\ Next /\ UNCHANGED <<msVars, part>>
    \/ part = "mail settings" /\ MSNext /\ UNCHANGED <<vars, part>>
PartsSpec == PartsInit /\ [][PartsNext]_allVars
=============================================================================
