--------------------------- MODULE TokenRegistry ---------------------------
(***************************************************************************)
(* What a session engine promises about its tokens, with nothing of how it *)
(* keeps them: a token is issued once, to one account; from then on it     *)
(* stands for that account until it is revoked; and it never comes back.   *)
(***************************************************************************)
CONSTANTS LoginIds, Tokens,
          Unused, Revoked   \* two values that are no account

VARIABLE holder   \* the account each token stands for, Unused or Revoked

Init == holder = [t \in Tokens |-> Unused]

Issue(t, l) ==
  /\ holder[t] = Unused
  /\ holder' = [holder EXCEPT ![t] = l]

Revoke(t) ==
  /\ holder[t] \in LoginIds
  /\ holder' = [holder EXCEPT ![t] = Revoked]

Next == \E t \in Tokens : Revoke(t) \/ \E l \in LoginIds : Issue(t, l)

Spec == Init /\ [][Next]_holder
=============================================================================
