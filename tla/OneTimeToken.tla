---------------------------- MODULE OneTimeToken ----------------------------
(***************************************************************************)
(* What an e-mailed link promises its holder, with requests, locks and     *)
(* sessions left out: a token is issued once, to one person; it is spent   *)
(* at most once, each time with exactly one effect for that person; where  *)
(* tokens are not Repeatable a person spends one of them at most, whatever *)
(* else is still open; only tokens of the same person end with it; and a   *)
(* token that was spent or voided never opens again.                       *)
(* MemberAccess implements this contract twice, with invitations and with  *)
(* password resets.                                                        *)
(***************************************************************************)
EXTENDS Naturals

CONSTANTS Tokens,      \* ids of tokens
          Holders,     \* the people they are sent to
          Repeatable,  \* whether a person may spend one token after another
          None         \* nobody

VARIABLES phase,       \* "unissued", "open", "spent" or "void"
          holder,      \* whom the token was sent to
          effects      \* how often a person's tokens have taken effect

tokenVars == <<phase, holder, effects>>

Init ==
  /\ phase = [t \in Tokens |-> "unissued"]
  /\ holder = [t \in Tokens |-> None]
  /\ effects = [h \in Holders |-> 0]

OpenTokens(h) == {t \in Tokens : phase[t] = "open" /\ holder[t] = h}

Voided(S) == [t \in Tokens |-> IF t \in S THEN "void" ELSE phase[t]]

\* A new token is sent to h; earlier ones, all or some, stop working.
Issue(t, h, S) ==
  /\ phase[t] = "unissued"
  /\ phase' = [Voided(S) EXCEPT ![t] = "open"]
  /\ holder' = [holder EXCEPT ![t] = h]
  /\ UNCHANGED effects

\* h spends t; the other tokens of h, all or some, stop working.  One that was sent
\* while t was being spent may stay open.
Spend(t, h, S) ==
  /\ t \in OpenTokens(h)
  /\ Repeatable \/ effects[h] = 0
  /\ phase' = [Voided(S) EXCEPT ![t] = "spent"]
  /\ effects' = [effects EXCEPT ![h] = @ + 1]
  /\ UNCHANGED holder

\* A token is withdrawn.
Withdraw(t) ==
  /\ phase[t] = "open"
  /\ phase' = [phase EXCEPT ![t] = "void"]
  /\ UNCHANGED <<holder, effects>>

Next ==
  \E t \in Tokens :
    \/ Withdraw(t)
    \/ \E h \in Holders : \E S \in SUBSET OpenTokens(h) : Issue(t, h, S) \/ Spend(t, h, S)

Spec == Init /\ [][Next]_tokenVars
=============================================================================
