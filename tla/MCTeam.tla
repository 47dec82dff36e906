------------------------------- MODULE MCTeam -------------------------------
(***************************************************************************)
(* Small instances of Team.                                                *)
(***************************************************************************)
EXTENDS Team, TLC

\* People, organisations and requests are interchangeable; no property is
\* a liveness property.
TeamSymmetry == Permutations(Users) \union Permutations(Orgs) \union Permutations(Workers)

\* Bound: an organisation is on less than the best plan only while it invites:
\* otherwise a smaller plan refuses invitations and does nothing else.
PlanShrinksUnderInvitation ==
    \A o \in Orgs : OrgLocked(o) \/ \A n \in Plans : n <= maxSeats[o]
=============================================================================
