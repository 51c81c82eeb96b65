---------------------------- MODULE AccessHandoff ----------------------------
(***************************************************************************)
(* What access tokens and handoff invites promise to the provider of one   *)
(* subscription: one token is valid at a time, one invite at a time, and   *)
(* an invite is exchanged for a token at most once, as if every request    *)
(* were a single step.  SubscriptionAccess implements it with transactions *)
(* of several statements and row locks.                                    *)
(***************************************************************************)
EXTENDS Naturals

VARIABLES issued,   \* tokens ever issued; they are numbered
          token,    \* the one not revoked, 0 if none
          invited,  \* invites ever issued
          invite,   \* the one neither revoked nor claimed, 0 if none
          claims    \* <<invite, token>> pairs

Init ==
  /\ issued = 0 /\ token = 0
  /\ invited = 0 /\ invite = 0
  /\ claims = {}

Replace == issued' = issued + 1 /\ token' = issued + 1

Issue == Replace /\ UNCHANGED <<invited, invite, claims>>

RevokeToken == token' = 0 /\ UNCHANGED <<issued, invited, invite, claims>>

Invite ==
  /\ invited' = invited + 1
  /\ invite' = invited + 1
  /\ UNCHANGED <<issued, token, claims>>

RevokeInvite == invite' = 0 /\ UNCHANGED <<issued, token, invited, claims>>

Claim ==
  /\ invite # 0
  /\ Replace
  /\ claims' = claims \cup {<<invite, token'>>}
  /\ invite' = 0
  /\ UNCHANGED invited

Next == Issue \/ RevokeToken \/ Invite \/ RevokeInvite \/ Claim

Spec == Init /\ [][Next]_<<issued, token, invited, invite, claims>>
=============================================================================
