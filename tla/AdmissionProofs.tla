--------------------------- MODULE AdmissionProofs ---------------------------
(***************************************************************************)
(* What the Admission Authority guarantees for every set of keys, base     *)
(* identities, enrollments, vouchers and Controllers, and every deadline.  *)
(*                                                                         *)
(* The invariants rest on one another, so they are proved as one inductive *)
(* invariant AdmissionInv of five named parts.  TypeOK alone is not        *)
(* inductive: an acknowledgement writes a Claim for the key its Proposal   *)
(* names, so the type of the stream needs IdentityInv, and the type of a   *)
(* fresh generation needs the maximum that GenerationInv promises.         *)
(***************************************************************************)
EXTENDS Admission, TLAPS

\* What the two identity tables and the Proposals agree on
IdentityInv ==
    /\ \A e \in Enrollments : proposal[e].state = "absent" => proposal[e] = NoProposal
    /\ \A e \in Enrollments : proposal[e].state # "absent" =>
          /\ proposal[e].key \in Keys
          /\ proposal[e].base \in Bases
          /\ bound[proposal[e].key] = proposal[e].base
    /\ \A e \in Enrollments : proposal[e].jti # None => proposal[e].jti \in spent
    /\ \A d, e \in Enrollments :
          proposal[d].jti = proposal[e].jti /\ proposal[d].jti # None => d = e
    /\ \A k, l \in Keys : bound[k] = bound[l] /\ bound[k] # None => k = l

\* How far the rows of one enrollment have come, told from the Proposal's state
ProgressInv ==
    \A e \in Enrollments :
        /\ proposal[e].state \in {"absent", "pending_review"} =>
              grant[e] = NoGrant /\ decision[e].verdict = "none"
        /\ proposal[e].state \in {"rejected", "canceled"} => grant[e] = NoGrant
        /\ proposal[e].state \in {"expired", "claim_revoked"} /\ grant[e].gen # 0 =>
              grant[e].revoked
        /\ grant[e].gen # 0 => decision[e].verdict = "approve"
        /\ grant[e].acked <=> proposal[e].state = "grant_acknowledged"

\* The generations of one hardware identity have a maximum and never repeat
GenerationInv ==
    \A b \in Bases :
        /\ \E m \in GrantedGenerations(b) : \A h \in GrantedGenerations(b) : h <= m
        /\ \A d, e \in Enrollments :
              /\ proposal[d].base = b /\ proposal[e].base = b
              /\ grant[d].gen = grant[e].gen /\ grant[d].gen # 0
              => d = e

\* A Claim names an enrollment that is over, so no sweep and no decision can touch it
ClaimInv ==
    /\ ClaimRestsOnItsGrant
    /\ \A k \in Keys : claim[k].state # "none" =>
          /\ claim[k].gen # 0
          /\ proposal[claim[k].by].state \in {"grant_acknowledged", "claim_revoked"}

AdmissionInv ==
    /\ TypeOK
    /\ IdentityInv
    /\ ProgressInv
    /\ GenerationInv
    /\ ClaimInv

------------------------------------------------------------------------------
(* Facts about the operators the actions are built from. *)

\* max_claim_generation + 1 is a positive number no grant of the base identity has
LEMMA NextGenerationIsNew ==
    ASSUME TypeOK, GenerationInv, NEW b \in Bases
    PROVE  /\ NextGeneration(b) \in Nat \ {0}
           /\ \A e \in Enrollments : proposal[e].base = b =>
                 grant[e].gen < NextGeneration(b)
<1> DEFINE IsMax(g) == \A h \in GrantedGenerations(b) : h <= g
           top == CHOOSE g \in GrantedGenerations(b) : IsMax(g)
<1>1. \E g \in GrantedGenerations(b) : IsMax(g)
  BY DEF GenerationInv
<1>2. top \in GrantedGenerations(b) /\ IsMax(top)
  BY <1>1
<1>3. GrantedGenerations(b) \subseteq Nat
  BY DEF GrantedGenerations, TypeOK, Grant
<1>4. NextGeneration(b) = top + 1
  BY DEF NextGeneration
<1>5. \A e \in Enrollments : proposal[e].base = b => grant[e].gen \in GrantedGenerations(b)
  BY DEF GrantedGenerations
<1> HIDE DEF top
<1> QED
  BY <1>2, <1>3, <1>4, <1>5

\* A fresh grant is one: undelivered, in force, of a positive generation
LEMMA NewGrantIsAGrant ==
    ASSUME AdmissionAssumption, TypeOK, GenerationInv, NEW b \in Bases
    PROVE  /\ NewGrant(b) \in Grant
           /\ NewGrant(b).gen = NextGeneration(b)
           /\ ~NewGrant(b).revoked /\ ~NewGrant(b).acked
<1>1. NextGeneration(b) \in Nat \ {0}
  BY NextGenerationIsNew
<1>2. clock + GrantTTL \in Nat
  BY DEF TypeOK, AdmissionAssumption
<1> QED
  BY <1>1, <1>2 DEF NewGrant, NoGrant, Grant

\* A transition changes the state of a Proposal, counts it, and nothing else
LEMMA MovedProposal ==
    ASSUME TypeOK, NEW e \in Enrollments, NEW to \in OpenStates \cup TerminalStates
    PROVE  /\ Moved(e, to) \in Proposal
           /\ Moved(e, to).state = to
           /\ Moved(e, to).rev = proposal[e].rev + 1
           /\ Moved(e, to).key = proposal[e].key
           /\ Moved(e, to).base = proposal[e].base
           /\ Moved(e, to).jti = proposal[e].jti
<1>1. proposal[e] \in Proposal
  BY DEF TypeOK
<1> DEFINE named == [proposal[e] EXCEPT !.state = to]
<1>2. named = [state |-> to, rev |-> proposal[e].rev, key |-> proposal[e].key,
               base |-> proposal[e].base, jti |-> proposal[e].jti,
               expires |-> proposal[e].expires]
  BY <1>1 DEF Proposal
<1>3. Moved(e, to) = [named EXCEPT !.rev = proposal[e].rev + 1]
  BY DEF Moved
<1> HIDE DEF named
<1>4. Moved(e, to) = [state |-> to, rev |-> proposal[e].rev + 1, key |-> proposal[e].key,
                      base |-> proposal[e].base, jti |-> proposal[e].jti,
                      expires |-> proposal[e].expires]
  BY <1>2, <1>3
<1>5. QED
  BY <1>1, <1>4 DEF Proposal

------------------------------------------------------------------------------
(* What one enrollment's rows may do to the parts others share. *)

\* Rows that keep their identity columns keep IdentityInv
LEMMA IdentityKept ==
    ASSUME IdentityInv, bound' = bound, spent' = spent,
           \A e \in Enrollments :
              \/ proposal'[e] = proposal[e]
              \/ /\ proposal[e].state # "absent" /\ proposal'[e].state # "absent"
                 /\ proposal'[e].key = proposal[e].key
                 /\ proposal'[e].base = proposal[e].base
                 /\ proposal'[e].jti = proposal[e].jti
    PROVE  IdentityInv'
BY DEF IdentityInv

\* Rows that keep their base identity and their generation keep GenerationInv
LEMMA GenerationKept ==
    ASSUME GenerationInv,
           \A e \in Enrollments :
              proposal'[e].base = proposal[e].base /\ grant'[e].gen = grant[e].gen
    PROVE  GenerationInv'
<1> SUFFICES ASSUME NEW b \in Bases
             PROVE  /\ \E m \in GrantedGenerations(b)' :
                          \A h \in GrantedGenerations(b)' : h <= m
                    /\ \A d, e \in Enrollments :
                          /\ proposal'[d].base = b /\ proposal'[e].base = b
                          /\ grant'[d].gen = grant'[e].gen /\ grant'[d].gen # 0
                          => d = e
  BY DEF GenerationInv
<1>1. GrantedGenerations(b)' = GrantedGenerations(b)
  BY DEF GrantedGenerations
<1>2. QED
  BY <1>1 DEF GenerationInv

\* A row that takes base identity b and the next generation of b keeps GenerationInv
LEMMA GenerationExtended ==
    ASSUME TypeOK, GenerationInv, NEW e \in Enrollments, NEW b \in Bases,
           proposal[e].base = b \/ (proposal[e].base \notin Bases),
           proposal'[e].base = b,
           grant'[e].gen = NextGeneration(b) \/ (grant'[e].gen = 0 /\ grant[e].gen = 0),
           grant[e].gen = 0,
           \A d \in Enrollments \ {e} :
              proposal'[d].base = proposal[d].base /\ grant'[d].gen = grant[d].gen
    PROVE  GenerationInv'
<1> SUFFICES ASSUME NEW a \in Bases
             PROVE  /\ \E m \in GrantedGenerations(a)' :
                          \A h \in GrantedGenerations(a)' : h <= m
                    /\ \A c, d \in Enrollments :
                          /\ proposal'[c].base = a /\ proposal'[d].base = a
                          /\ grant'[c].gen = grant'[d].gen /\ grant'[c].gen # 0
                          => c = d
  BY DEF GenerationInv
<1>1. \A d \in Enrollments : grant[d].gen \in Nat
  BY DEF TypeOK, Grant
<1>2. NextGeneration(b) \in Nat \ {0}
      /\ \A d \in Enrollments : proposal[d].base = b => grant[d].gen < NextGeneration(b)
  BY NextGenerationIsNew
<1>3. CASE a = b /\ grant'[e].gen = NextGeneration(b)
  <2>1. GrantedGenerations(a)' = GrantedGenerations(a) \cup {NextGeneration(b)}
    BY <1>3 DEF GrantedGenerations
  <2>2. \A h \in GrantedGenerations(a) : h <= NextGeneration(b)
    BY <1>1, <1>2, <1>3 DEF GrantedGenerations
  <2>3. \E m \in GrantedGenerations(a)' : \A h \in GrantedGenerations(a)' : h <= m
    <3> DEFINE new == NextGeneration(b)
               old == GrantedGenerations(a)
    <3>1. new \in Nat /\ \A h \in old : h <= new
      BY <1>2, <2>2
    <3> HIDE DEF new, old
    <3>2. \A h \in old \cup {new} : h <= new
      BY <3>1
    <3>3. QED
      BY <2>1, <3>2 DEF new, old
  <2>4. QED
    BY <1>1, <1>2, <1>3, <2>3 DEF GenerationInv
<1>4. CASE ~(a = b /\ grant'[e].gen = NextGeneration(b))
  <2>1. GrantedGenerations(a)' = GrantedGenerations(a)
    BY <1>4 DEF GrantedGenerations
  <2>2. QED
    BY <1>4, <2>1 DEF GenerationInv
<1>5. QED
  BY <1>3, <1>4

\* Enrollments that are over keep the Claims they gave
LEMMA ClaimKept ==
    ASSUME ClaimInv, claim' = claim,
           \A e \in Enrollments :
              proposal[e].state \in {"grant_acknowledged", "claim_revoked"} =>
                 /\ proposal'[e] = proposal[e]
                 /\ grant'[e] = grant[e]
                 /\ decision'[e] = decision[e]
    PROVE  ClaimInv'
BY DEF ClaimInv, ClaimRestsOnItsGrant

\* Nothing an action leaves alone needs proving again
LEMMA InvKept ==
    ASSUME AdmissionInv, UNCHANGED <<identityVars, enrollmentVars, claim>>
    PROVE  IdentityInv' /\ ProgressInv' /\ GenerationInv' /\ ClaimInv'
<1> USE DEF AdmissionInv, identityVars, enrollmentVars
<1>1. IdentityInv'
  BY IdentityKept
<1>2. ProgressInv'
  BY DEF ProgressInv
<1>3. GenerationInv'
  BY GenerationKept
<1>4. ClaimInv'
  BY ClaimKept
<1>5. QED
  BY <1>1, <1>2, <1>3, <1>4

------------------------------------------------------------------------------
(* The actions, one lemma each. *)

\* expire_due, whether alone or as the first transaction of a command
LEMMA SweepKeepsInv ==
    ASSUME AdmissionInv, Sweep, UNCHANGED <<identityVars, decision, claim>>
    PROVE  /\ IdentityInv' /\ ProgressInv' /\ GenerationInv' /\ ClaimInv'
           /\ proposal' \in [Enrollments -> Proposal]
           /\ grant' \in [Enrollments -> Grant]
<1> USE DEF AdmissionInv, identityVars
<1>1. \A e \in Enrollments :
         \/ proposal'[e] = proposal[e] /\ grant'[e] = grant[e]
         \/ /\ proposal[e].state \in OpenStates
            /\ proposal'[e] = Moved(e, "expired")
            /\ grant'[e] = IF grant[e].gen # 0 THEN [grant[e] EXCEPT !.revoked = TRUE]
                           ELSE grant[e]
  BY DEF Sweep, Due
<1>2. \A e \in Enrollments : proposal[e] \in Proposal /\ grant[e] \in Grant
  BY DEF TypeOK
<1>3. \A e \in Enrollments : /\ Moved(e, "expired") \in Proposal
                             /\ Moved(e, "expired").state = "expired"
                             /\ Moved(e, "expired").key = proposal[e].key
                             /\ Moved(e, "expired").base = proposal[e].base
                             /\ Moved(e, "expired").jti = proposal[e].jti
  BY MovedProposal DEF TerminalStates
<1>4. \A e \in Enrollments :
         /\ grant'[e] \in Grant
         /\ grant'[e].gen = grant[e].gen
         /\ grant'[e].acked = grant[e].acked
         /\ grant'[e] # grant[e] => grant'[e].revoked
         /\ proposal'[e] # proposal[e] /\ grant[e].gen # 0 => grant'[e].revoked
  BY <1>1, <1>2 DEF Grant
<1>5. IdentityInv'
  BY <1>1, <1>3, IdentityKept DEF OpenStates
<1>6. ProgressInv'
  <2> SUFFICES ASSUME NEW e \in Enrollments
               PROVE  ProgressInv!(e)'
    BY DEF ProgressInv
  <2>1. CASE proposal'[e] = proposal[e] /\ grant'[e] = grant[e]
    BY <2>1 DEF ProgressInv
  <2>2. CASE proposal[e].state \in OpenStates /\ proposal'[e] = Moved(e, "expired")
    BY <1>3, <1>4, <2>2 DEF ProgressInv, OpenStates
  <2>3. QED
    BY <1>1, <2>1, <2>2
<1>7. GenerationInv'
  BY <1>1, <1>3, <1>4, GenerationKept
<1>8. ClaimInv'
  BY <1>1, ClaimKept DEF OpenStates
<1>9. proposal' \in [Enrollments -> Proposal] /\ grant' \in [Enrollments -> Grant]
  BY <1>1, <1>2, <1>3, <1>4 DEF Sweep
<1>10. QED
  BY <1>5, <1>6, <1>7, <1>8, <1>9

\* One transition of one Proposal keeps what the identity tables say
LEMMA MoveKeepsIdentity ==
    ASSUME AdmissionInv, UNCHANGED identityVars,
           NEW e \in Enrollments, NEW to \in OpenStates \cup TerminalStates,
           proposal[e].state # "absent",
           proposal' = [proposal EXCEPT ![e] = Moved(e, to)]
    PROVE  /\ IdentityInv'
           /\ proposal' \in [Enrollments -> Proposal]
           /\ proposal'[e].state = to
           /\ proposal'[e].key = proposal[e].key
           /\ \A d \in Enrollments : proposal'[d].base = proposal[d].base
           /\ \A d \in Enrollments \ {e} : proposal'[d] = proposal[d]
<1> USE DEF AdmissionInv, identityVars
<1>1. /\ Moved(e, to) \in Proposal
      /\ Moved(e, to).state = to
      /\ Moved(e, to).key = proposal[e].key
      /\ Moved(e, to).base = proposal[e].base
      /\ Moved(e, to).jti = proposal[e].jti
  BY MovedProposal
<1>2. /\ proposal'[e] = Moved(e, to)
      /\ \A d \in Enrollments \ {e} : proposal'[d] = proposal[d]
  BY DEF TypeOK
<1>3. to # "absent"
  BY DEF OpenStates, TerminalStates
<1>4. IdentityInv'
  BY <1>1, <1>2, <1>3, IdentityKept
<1>5. proposal' \in [Enrollments -> Proposal]
  BY <1>1 DEF TypeOK
<1>6. QED
  BY <1>1, <1>2, <1>4, <1>5

\* create_enrollment: the identity tables take the key, or already hold it
LEMMA CreateKeepsInv ==
    ASSUME AdmissionAssumption, AdmissionInv,
           NEW e \in Enrollments, NEW k \in Keys, NEW b \in Bases, NEW j \in Jtis \cup {None},
           \/ /\ j \in Jtis
              /\ CreateWithVoucher(e, k, b, j)
           \/ j = None /\ CreateByContinuation(e, k, b)
    PROVE  AdmissionInv'
<1> USE DEF AdmissionInv
<1> DEFINE created == NewProposal(k, b, j, "pending_review", 1)
           answered == NewProposal(k, b, j, "approved_awaiting_handoff", 2)
<1>1. Propose(e, k, b, j) /\ UNCHANGED <<clock, standingVars, claimVars, calls>>
  BY DEF CreateWithVoucher, CreateByContinuation
<1>2. proposal[e] = NoProposal /\ grant[e] = NoGrant /\ decision[e].verdict = "none"
  BY <1>1 DEF Propose, IdentityInv, ProgressInv
<1>3. /\ created \in Proposal
      /\ created.key = k /\ created.base = b /\ created.jti = j
      /\ created.state = "pending_review"
  BY DEF NewProposal, Proposal, OpenStates, TypeOK, AdmissionAssumption
<1>4. /\ answered \in Proposal
      /\ answered.key = k /\ answered.base = b /\ answered.jti = j
      /\ answered.state = "approved_awaiting_handoff"
  BY DEF NewProposal, Proposal, OpenStates, TypeOK, AdmissionAssumption
<1>5. /\ NewGrant(b) \in Grant
      /\ NewGrant(b).gen = NextGeneration(b)
      /\ ~NewGrant(b).revoked /\ ~NewGrant(b).acked
  BY NewGrantIsAGrant
<1>6. \/ /\ proposal' = [proposal EXCEPT ![e] = created]
         /\ UNCHANGED <<decision, grant>>
      \/ \E s \in StandingFor(k, j) :
            /\ proposal' = [proposal EXCEPT ![e] = answered]
            /\ decision' = [decision EXCEPT
                  ![e] = [verdict |-> "approve", standing |-> s.jti, rev |-> 1]]
            /\ grant' = [grant EXCEPT ![e] = NewGrant(b)]
  BY <1>1 DEF Propose
<1> HIDE DEF created, answered
<1>7. /\ \A d \in Enrollments \ {e} : /\ proposal'[d] = proposal[d]
                                      /\ grant'[d] = grant[d]
                                      /\ decision'[d] = decision[d]
      /\ \/ /\ proposal'[e] = created
            /\ grant'[e] = NoGrant /\ decision'[e].verdict = "none"
         \/ /\ proposal'[e] = answered
            /\ grant'[e] = NewGrant(b) /\ decision'[e].verdict = "approve"
  BY <1>2, <1>6 DEF TypeOK
<1>8. /\ bound'[k] = b
      /\ \A l \in Keys \ {k} : bound'[l] = bound[l]
      /\ bound[k] \in {None, b}
      /\ \A l \in Keys \ {k} : bound[l] # b
      /\ spent' = IF j = None THEN spent ELSE spent \cup {j}
      /\ j # None => j \notin spent
      /\ bound' \in [Keys -> Bases \cup {None}]
  <2>1. CASE j \in Jtis /\ CreateWithVoucher(e, k, b, j)
    <3>1. bound' = [bound EXCEPT ![k] = b] /\ bound \in [Keys -> Bases \cup {None}]
      BY <2>1 DEF CreateWithVoucher, TypeOK
    <3>2. bound[k] \in {None, b} /\ \A l \in Keys \ {k} : bound[l] # b
      BY <2>1 DEF CreateWithVoucher, MayBind
    <3>3. j # None /\ j \notin spent /\ spent' = spent \cup {j}
      BY <2>1 DEF CreateWithVoucher, AdmissionAssumption
    <3>4. QED
      BY <3>1, <3>2, <3>3
  <2>2. CASE j = None /\ CreateByContinuation(e, k, b)
    <3>1. bound' = bound /\ spent' = spent /\ bound[k] = b
      BY <2>2 DEF CreateByContinuation, identityVars
    <3>2. b # None
      BY DEF AdmissionAssumption
    <3>3. \A l \in Keys \ {k} : bound[l] # b
      BY <3>1, <3>2 DEF IdentityInv
    <3>4. QED
      BY <2>2, <3>1, <3>3 DEF TypeOK
  <2>3. QED
    BY <2>1, <2>2
<1>9. /\ proposal'[e].state \in {"pending_review", "approved_awaiting_handoff"}
      /\ proposal'[e].key = k /\ proposal'[e].base = b /\ proposal'[e].jti = j
  BY <1>3, <1>4, <1>7
<1>10. IdentityInv'
  <2>1. \A d \in Enrollments : proposal'[d].state = "absent" => proposal'[d] = NoProposal
    BY <1>7, <1>9 DEF IdentityInv
  <2>2. \A d \in Enrollments : proposal'[d].state # "absent" =>
           /\ proposal'[d].key \in Keys
           /\ proposal'[d].base \in Bases
           /\ bound'[proposal'[d].key] = proposal'[d].base
    BY <1>7, <1>8, <1>9 DEF IdentityInv, AdmissionAssumption
  <2>3. \A d \in Enrollments : proposal'[d].jti # None => proposal'[d].jti \in spent'
    BY <1>7, <1>8, <1>9 DEF IdentityInv
  <2>4. \A c, d \in Enrollments :
           proposal'[c].jti = proposal'[d].jti /\ proposal'[c].jti # None => c = d
    BY <1>7, <1>8, <1>9 DEF IdentityInv
  <2>5. \A l, m \in Keys : bound'[l] = bound'[m] /\ bound'[l] # None => l = m
    BY <1>8 DEF IdentityInv
  <2>6. QED
    BY <2>1, <2>2, <2>3, <2>4, <2>5 DEF IdentityInv
<1>11. ProgressInv'
  <2>1. \A d \in Enrollments \ {e} : ProgressInv!(d)'
    BY <1>7 DEF ProgressInv
  <2>2. ProgressInv!(e)'
    BY <1>3, <1>4, <1>5, <1>7 DEF NoGrant
  <2>3. QED
    BY <2>1, <2>2 DEF ProgressInv
<1>12. GenerationInv'
  <2>1. proposal[e].base \notin Bases /\ grant[e].gen = 0
    BY <1>2 DEF NoProposal, NoGrant, AdmissionAssumption
  <2>2. grant'[e].gen = NextGeneration(b) \/ grant'[e].gen = 0
    BY <1>5, <1>7 DEF NoGrant
  <2>3. QED
    BY <1>7, <1>9, <2>1, <2>2, GenerationExtended
<1>13. ClaimInv'
  BY <1>1, <1>2, <1>7, ClaimKept DEF claimVars, NoProposal
<1>14. TypeOK'
  <2>1. proposal' \in [Enrollments -> Proposal]
    BY <1>3, <1>4, <1>6 DEF TypeOK
  <2>2. grant' \in [Enrollments -> Grant]
    BY <1>5, <1>6 DEF TypeOK
  <2>3. decision' \in [Enrollments -> Decision]
    <3>1. \A s \in StandingFor(k, j) : s.jti \in Jtis
      BY DEF StandingFor, StandingRows, TypeOK, Standing
    <3>2. QED
      BY <1>6, <3>1 DEF TypeOK, Decision
  <2>4. spent' \subseteq Jtis
    BY <1>8 DEF TypeOK
  <2>5. QED
    BY <1>1, <1>8, <2>1, <2>2, <2>3, <2>4 DEF TypeOK, standingVars, claimVars
<1>15. QED
  BY <1>10, <1>11, <1>12, <1>13, <1>14

\* decide_enrollment: only a pending Proposal, which holds no grant, is decided
LEMMA DecideKeepsInv ==
    ASSUME AdmissionAssumption, AdmissionInv, NEW c \in calls, Decide(c)
    PROVE  AdmissionInv'
<1> USE DEF AdmissionInv
<1> DEFINE e == c.e
           b == proposal[e].base
           to == IF c.op = "approve" THEN "approved_awaiting_handoff" ELSE "rejected"
<1>1. e \in Enrollments /\ c.op \in {"approve", "reject"}
  BY DEF TypeOK, Call, Decide
<1>2. proposal[e].state = "pending_review"
  BY DEF Decide, MayBecome
<1>3. b \in Bases /\ grant[e] = NoGrant /\ decision[e].verdict = "none"
  BY <1>1, <1>2 DEF IdentityInv, ProgressInv
<1>4. /\ to \in OpenStates \cup TerminalStates
      /\ proposal' = [proposal EXCEPT ![e] = Moved(e, to)]
      /\ decision' = [decision EXCEPT
            ![e] = [verdict |-> c.op, standing |-> None, rev |-> proposal[e].rev]]
      /\ grant' = IF c.op = "approve" THEN [grant EXCEPT ![e] = NewGrant(b)] ELSE grant
      /\ UNCHANGED <<clock, identityVars, standingVars, claimVars>>
      /\ calls' \subseteq calls
  BY DEF Decide, OpenStates, TerminalStates
<1>5. /\ IdentityInv'
      /\ proposal' \in [Enrollments -> Proposal]
      /\ proposal'[e].state = to
      /\ \A d \in Enrollments : proposal'[d].base = proposal[d].base
      /\ \A d \in Enrollments \ {e} : proposal'[d] = proposal[d]
  <2> HIDE DEF e, to
  <2> QED
    BY <1>1, <1>2, <1>4, MoveKeepsIdentity
<1>6. /\ NewGrant(b) \in Grant
      /\ NewGrant(b).gen = NextGeneration(b)
      /\ ~NewGrant(b).revoked /\ ~NewGrant(b).acked
  BY <1>3, NewGrantIsAGrant
<1>7. /\ grant' \in [Enrollments -> Grant]
      /\ grant'[e] = IF c.op = "approve" THEN NewGrant(b) ELSE NoGrant
      /\ \A d \in Enrollments \ {e} : grant'[d] = grant[d]
  BY <1>1, <1>3, <1>4, <1>6 DEF TypeOK
<1>8. /\ decision' \in [Enrollments -> Decision]
      /\ decision'[e].verdict = c.op
      /\ \A d \in Enrollments \ {e} : decision'[d] = decision[d]
  <2>1. proposal[e].rev \in Nat
    BY <1>1 DEF TypeOK, Proposal
  <2>2. QED
    BY <1>1, <1>4, <2>1 DEF TypeOK, Decision
<1>9. ProgressInv'
  <2>1. \A d \in Enrollments \ {e} : ProgressInv!(d)'
    BY <1>5, <1>7, <1>8 DEF ProgressInv
  <2>2. ProgressInv!(e)'
    BY <1>1, <1>5, <1>6, <1>7, <1>8 DEF NoGrant
  <2>3. QED
    BY <2>1, <2>2 DEF ProgressInv
<1>10. GenerationInv'
  <2>1. grant[e].gen = 0 /\ grant'[e].gen \in {NextGeneration(b), 0}
    BY <1>3, <1>6, <1>7 DEF NoGrant
  <2> HIDE DEF e
  <2>2. QED
    BY <1>1, <1>3, <1>5, <1>7, <2>1, GenerationExtended
<1>11. ClaimInv'
  BY <1>2, <1>4, <1>5, <1>7, <1>8, ClaimKept DEF claimVars
<1>12. TypeOK'
  BY <1>4, <1>5, <1>7, <1>8 DEF TypeOK, identityVars, standingVars, claimVars
<1>13. QED
  BY <1>5, <1>9, <1>10, <1>11, <1>12

\* cancel_enrollment: a pending Proposal ends without a grant
LEMMA CancelKeepsInv ==
    ASSUME AdmissionInv, NEW c \in calls, Cancel(c)
    PROVE  AdmissionInv'
<1> USE DEF AdmissionInv
<1> DEFINE e == c.e
<1>1. e \in Enrollments /\ proposal[e].state = "pending_review"
  BY DEF TypeOK, Call, Cancel, MayBecome
<1>2. /\ "canceled" \in OpenStates \cup TerminalStates
      /\ proposal' = [proposal EXCEPT ![e] = Moved(e, "canceled")]
      /\ UNCHANGED <<clock, identityVars, standingVars, decision, grant, claimVars>>
      /\ calls' \subseteq calls
  BY DEF Cancel, TerminalStates
<1> HIDE DEF e
<1>3. /\ IdentityInv'
      /\ proposal' \in [Enrollments -> Proposal]
      /\ proposal'[e].state = "canceled"
      /\ \A d \in Enrollments : proposal'[d].base = proposal[d].base
      /\ \A d \in Enrollments \ {e} : proposal'[d] = proposal[d]
  BY <1>1, <1>2, MoveKeepsIdentity
<1>4. ProgressInv'
  BY <1>1, <1>2, <1>3 DEF ProgressInv, NoGrant
<1>5. GenerationInv'
  BY <1>2, <1>3, GenerationKept
<1>6. ClaimInv'
  BY <1>1, <1>2, <1>3, ClaimKept DEF claimVars
<1>7. TypeOK'
  BY <1>2, <1>3 DEF TypeOK, identityVars, standingVars, claimVars
<1>8. QED
  BY <1>3, <1>4, <1>5, <1>6, <1>7

\* collect_claim_grant: the grant is marked delivered, its generation stays
LEMMA CollectKeepsInv ==
    ASSUME AdmissionInv, NEW c \in calls, Collect(c)
    PROVE  AdmissionInv'
<1> USE DEF AdmissionInv
<1> DEFINE e == c.e
<1>1. /\ e \in Enrollments
      /\ proposal[e].state \in {"approved_awaiting_handoff", "grant_delivered"}
      /\ UNCHANGED <<clock, identityVars, standingVars, decision, claimVars>>
      /\ calls' \subseteq calls
  BY DEF TypeOK, Call, Collect
<1>2. CASE UNCHANGED <<proposal, grant>>
  <2>1. IdentityInv' /\ ProgressInv' /\ GenerationInv' /\ ClaimInv'
    BY <1>1, <1>2, InvKept DEF enrollmentVars, claimVars
  <2>2. QED
    BY <1>1, <1>2, <2>1 DEF TypeOK, identityVars, standingVars, claimVars
<1>3. CASE ~grant[e].delivered
  <2>1. /\ "grant_delivered" \in OpenStates \cup TerminalStates
        /\ proposal' = [proposal EXCEPT ![e] = Moved(e, "grant_delivered")]
        /\ grant' = [grant EXCEPT ![e].delivered = TRUE]
    BY <1>3 DEF Collect, OpenStates
  <2> HIDE DEF e
  <2>2. /\ IdentityInv'
        /\ proposal' \in [Enrollments -> Proposal]
        /\ proposal'[e].state = "grant_delivered"
        /\ \A d \in Enrollments : proposal'[d].base = proposal[d].base
        /\ \A d \in Enrollments \ {e} : proposal'[d] = proposal[d]
    BY <1>1, <2>1, MoveKeepsIdentity
  <2>3. /\ grant' \in [Enrollments -> Grant]
        /\ \A d \in Enrollments \ {e} : grant'[d] = grant[d]
        /\ grant'[e].gen = grant[e].gen
        /\ grant'[e].acked = grant[e].acked
    BY <1>1, <2>1 DEF TypeOK, Grant
  <2>4. ProgressInv'
    <3>1. \A d \in Enrollments \ {e} : ProgressInv!(d)'
      BY <1>1, <2>2, <2>3 DEF ProgressInv
    <3>2. ProgressInv!(e)'
      BY <1>1, <2>2, <2>3 DEF ProgressInv
    <3>3. QED
      BY <3>1, <3>2 DEF ProgressInv
  <2>5. GenerationInv'
    BY <2>2, <2>3, GenerationKept
  <2>6. ClaimInv'
    BY <1>1, <2>2, <2>3, ClaimKept DEF claimVars
  <2>7. TypeOK'
    BY <1>1, <2>2, <2>3 DEF TypeOK, identityVars, standingVars, claimVars
  <2>8. QED
    BY <2>2, <2>4, <2>5, <2>6, <2>7
<1>4. QED
  BY <1>2, <1>3 DEF Collect

\* An upserted Claim is a row of the table, and what is published of it an event
LEMMA UpsertAndPublish ==
    ASSUME TypeOK, NEW k \in Keys, NEW state \in {"active", "revoked"}, NEW g \in Nat,
           NEW e \in Enrollments, UpsertClaim(k, state, g, e),
           NEW type \in {"activated", "revoked"}, Publish(type, k, g)
    PROVE  /\ claim' \in [Keys -> Claim]
           /\ claim'[k].state = state /\ claim'[k].gen = g /\ claim'[k].by = e
           /\ \A l \in Keys \ {k} : claim'[l] = claim[l]
           /\ stream' \in Seq(ClaimEvent)
<1>1. claim[k].rev + 1 \in Nat
  BY DEF TypeOK, Claim
<1>2. [state |-> state, gen |-> g, by |-> e, rev |-> claim[k].rev + 1] \in Claim
  BY <1>1 DEF Claim
<1>3. /\ claim' \in [Keys -> Claim]
      /\ claim'[k] = [state |-> state, gen |-> g, by |-> e, rev |-> claim[k].rev + 1]
      /\ \A l \in Keys \ {k} : claim'[l] = claim[l]
  BY <1>2 DEF UpsertClaim, TypeOK
<1>4. [type |-> type, key |-> k, gen |-> g, rev |-> claim'[k].rev] \in ClaimEvent
  BY <1>1, <1>3 DEF ClaimEvent
<1>5. stream' \in Seq(ClaimEvent)
  BY <1>4 DEF Publish, TypeOK
<1>6. QED
  BY <1>3, <1>5

\* project_revoked_claim writes a device row or nothing
LEMMA RevokeDeviceType ==
    ASSUME TypeOK, NEW k \in Keys, NEW g \in Nat, RevokeDevice(k, g)
    PROVE  device' \in [Keys -> DeviceRow]
BY DEF RevokeDevice, TypeOK, DeviceRow

\* ack_claim_grant: a delivered grant of its enrollment becomes the Claim of its key
LEMMA AcknowledgeKeepsInv ==
    ASSUME AdmissionInv, NEW c \in calls, Acknowledge(c)
    PROVE  AdmissionInv'
<1> USE DEF AdmissionInv
<1> DEFINE e == c.e
           k == proposal[e].key
           g == grant[e].gen
<1>1. e \in Enrollments /\ proposal[e].state = "grant_delivered"
  BY DEF TypeOK, Call, Acknowledge, MayBecome
<1>2. /\ k \in Keys /\ g \in Nat \ {0}
      /\ grant[e] \in Grant /\ ~grant[e].revoked
      /\ decision[e].verdict = "approve"
  BY <1>1 DEF IdentityInv, ProgressInv, TypeOK, Grant, Acknowledge
<1>3. /\ "grant_acknowledged" \in OpenStates \cup TerminalStates
      /\ proposal' = [proposal EXCEPT ![e] = Moved(e, "grant_acknowledged")]
      /\ grant' = [grant EXCEPT ![e].acked = TRUE]
      /\ UpsertClaim(k, "active", g, e)
      /\ device' = [device EXCEPT
            ![k] = [state |-> "approved", gen |-> g, rev |-> device[k].rev + 1]]
      /\ Publish("activated", k, g)
      /\ calls' \subseteq calls
      /\ UNCHANGED <<clock, identityVars, standingVars, decision>>
  BY DEF Acknowledge, TerminalStates
<1> HIDE DEF e
<1>4. /\ IdentityInv'
      /\ proposal' \in [Enrollments -> Proposal]
      /\ proposal'[e].state = "grant_acknowledged"
      /\ proposal'[e].key = k
      /\ \A d \in Enrollments : proposal'[d].base = proposal[d].base
      /\ \A d \in Enrollments \ {e} : proposal'[d] = proposal[d]
  BY <1>1, <1>3, MoveKeepsIdentity
<1>5. /\ grant' \in [Enrollments -> Grant]
      /\ \A d \in Enrollments \ {e} : grant'[d] = grant[d]
      /\ grant'[e].gen = g /\ grant'[e].acked /\ ~grant'[e].revoked
  BY <1>1, <1>2, <1>3 DEF TypeOK, Grant
<1> HIDE DEF k, g
<1>6. /\ claim' \in [Keys -> Claim]
      /\ claim'[k].state = "active" /\ claim'[k].gen = g /\ claim'[k].by = e
      /\ \A l \in Keys \ {k} : claim'[l] = claim[l]
      /\ stream' \in Seq(ClaimEvent)
  BY <1>1, <1>2, <1>3, UpsertAndPublish
<1>7. device' \in [Keys -> DeviceRow]
  <2>1. device[k].rev + 1 \in Nat
    BY <1>2 DEF TypeOK, DeviceRow
  <2>2. QED
    BY <1>2, <1>3, <2>1 DEF TypeOK, DeviceRow
<1>8. ProgressInv'
  <2>1. \A d \in Enrollments \ {e} : ProgressInv!(d)'
    BY <1>3, <1>4, <1>5 DEF ProgressInv
  <2>2. ProgressInv!(e)'
    BY <1>2, <1>3, <1>4, <1>5
  <2>3. QED
    BY <2>1, <2>2 DEF ProgressInv
<1>9. GenerationInv'
  BY <1>4, <1>5, GenerationKept DEF g
<1>10. ClaimInv'
  <2> SUFFICES ASSUME NEW l \in Keys, claim'[l].state # "none"
               PROVE  /\ ClaimRestsOnItsGrant!(l)!2'
                      /\ claim'[l].gen # 0
                      /\ proposal'[claim'[l].by].state
                            \in {"grant_acknowledged", "claim_revoked"}
    BY DEF ClaimInv, ClaimRestsOnItsGrant
  <2>1. CASE l = k
    BY <1>1, <1>2, <1>3, <1>4, <1>5, <1>6, <2>1
  <2>2. CASE l # k
    <3>1. claim'[l] = claim[l] /\ claim[l].by # e
      BY <1>1, <1>6, <2>2 DEF ClaimInv
    <3>2. QED
      BY <1>3, <1>4, <1>5, <2>2, <3>1 DEF ClaimInv, ClaimRestsOnItsGrant
  <2>3. QED
    BY <2>1, <2>2
<1>11. TypeOK'
  BY <1>3, <1>4, <1>5, <1>6, <1>7 DEF TypeOK, identityVars, standingVars
<1>12. QED
  BY <1>4, <1>8, <1>9, <1>10, <1>11

\* revoke_claim before any acknowledgement: the grant and its Proposal end together
LEMMA RevokeUnclaimedKeepsInv ==
    ASSUME AdmissionInv, NEW e \in Enrollments, RevokeUnclaimed(e)
    PROVE  AdmissionInv'
<1> USE DEF AdmissionInv
<1> DEFINE k == proposal[e].key
           g == grant[e].gen
<1>1. proposal[e].state \in {"approved_awaiting_handoff", "grant_delivered"}
  BY DEF RevokeUnclaimed, MayBecome
<1>2. /\ k \in Keys /\ g \in Nat \ {0}
      /\ grant[e] \in Grant /\ ~grant[e].acked
      /\ decision[e].verdict = "approve"
  BY <1>1 DEF IdentityInv, ProgressInv, TypeOK, Grant, RevokeUnclaimed
<1>3. /\ "claim_revoked" \in OpenStates \cup TerminalStates
      /\ proposal' = [proposal EXCEPT ![e] = Moved(e, "claim_revoked")]
      /\ grant' = [grant EXCEPT ![e].revoked = TRUE]
      /\ UpsertClaim(k, "revoked", g, e)
      /\ RevokeDevice(k, g)
      /\ Publish("revoked", k, g)
      /\ UNCHANGED <<clock, identityVars, standingVars, decision, calls>>
  BY DEF RevokeUnclaimed, TerminalStates
<1>4. /\ IdentityInv'
      /\ proposal' \in [Enrollments -> Proposal]
      /\ proposal'[e].state = "claim_revoked"
      /\ proposal'[e].key = k
      /\ \A d \in Enrollments : proposal'[d].base = proposal[d].base
      /\ \A d \in Enrollments \ {e} : proposal'[d] = proposal[d]
  BY <1>1, <1>3, MoveKeepsIdentity
<1>5. /\ grant' \in [Enrollments -> Grant]
      /\ \A d \in Enrollments \ {e} : grant'[d] = grant[d]
      /\ grant'[e].gen = g /\ grant'[e].revoked /\ ~grant'[e].acked
  BY <1>2, <1>3 DEF TypeOK, Grant
<1> HIDE DEF k, g
<1>6. /\ claim' \in [Keys -> Claim]
      /\ claim'[k].state = "revoked" /\ claim'[k].gen = g /\ claim'[k].by = e
      /\ \A l \in Keys \ {k} : claim'[l] = claim[l]
      /\ stream' \in Seq(ClaimEvent)
  BY <1>2, <1>3, UpsertAndPublish
<1>7. device' \in [Keys -> DeviceRow]
  BY <1>2, <1>3, RevokeDeviceType
<1>8. ProgressInv'
  <2>1. \A d \in Enrollments \ {e} : ProgressInv!(d)'
    BY <1>3, <1>4, <1>5 DEF ProgressInv
  <2>2. ProgressInv!(e)'
    BY <1>2, <1>3, <1>4, <1>5
  <2>3. QED
    BY <2>1, <2>2 DEF ProgressInv
<1>9. GenerationInv'
  BY <1>4, <1>5, GenerationKept DEF g
<1>10. ClaimInv'
  <2> SUFFICES ASSUME NEW l \in Keys, claim'[l].state # "none"
               PROVE  /\ ClaimRestsOnItsGrant!(l)!2'
                      /\ claim'[l].gen # 0
                      /\ proposal'[claim'[l].by].state
                            \in {"grant_acknowledged", "claim_revoked"}
    BY DEF ClaimInv, ClaimRestsOnItsGrant
  <2>1. CASE l = k
    BY <1>2, <1>3, <1>4, <1>5, <1>6, <2>1
  <2>2. CASE l # k
    <3>1. claim'[l] = claim[l] /\ claim[l].by # e
      BY <1>1, <1>6, <2>2 DEF ClaimInv
    <3>2. QED
      BY <1>3, <1>4, <1>5, <2>2, <3>1 DEF ClaimInv, ClaimRestsOnItsGrant
  <2>3. QED
    BY <2>1, <2>2
<1>11. TypeOK'
  BY <1>3, <1>4, <1>5, <1>6, <1>7 DEF TypeOK, identityVars, standingVars
<1>12. QED
  BY <1>4, <1>8, <1>9, <1>10, <1>11

\* revoke_claim of an active Claim: the row and the grant behind it, no Proposal
LEMMA RevokeClaimKeepsInv ==
    ASSUME AdmissionInv, NEW k \in Keys, RevokeClaim(k)
    PROVE  AdmissionInv'
<1> USE DEF AdmissionInv
<1> DEFINE g == claim[k].gen
<1>0. PICK e \in Enrollments : e = claim[k].by
  BY DEF RevokeClaim, ClaimInv, ClaimRestsOnItsGrant
<1>1. /\ claim[k].state = "active"
      /\ claim[k] \in Claim
      /\ grant' = [grant EXCEPT ![e].revoked = TRUE]
      /\ RevokeDevice(k, g)
      /\ stream' = Append(stream,
            [type |-> "revoked", key |-> k, gen |-> g, rev |-> claim'[k].rev])
      /\ UNCHANGED <<clock, identityVars, standingVars, proposal, decision, calls>>
  BY <1>0 DEF RevokeClaim, Publish, TypeOK
<1>2. /\ g \in Nat
      /\ grant[e] \in Grant /\ grant[e].acked
      /\ decision[e].verdict = "approve"
      /\ proposal[e].key = k /\ proposal[e].state = "grant_acknowledged"
  BY <1>0, <1>1 DEF ClaimInv, ClaimRestsOnItsGrant, TypeOK, Claim
<1> HIDE DEF g
<1>3. /\ grant' \in [Enrollments -> Grant]
      /\ \A d \in Enrollments \ {e} : grant'[d] = grant[d]
      /\ grant'[e].gen = grant[e].gen
      /\ grant'[e].acked /\ grant'[e].revoked
  BY <1>1, <1>2 DEF TypeOK, Grant
<1>4. /\ claim' \in [Keys -> Claim]
      /\ claim'[k].state = "revoked"
      /\ claim'[k].gen = claim[k].gen /\ claim'[k].by = claim[k].by
      /\ \A l \in Keys \ {k} : claim'[l] = claim[l]
  <2> DEFINE named == [claim EXCEPT ![k].state = "revoked"]
  <2>1. /\ named \in [Keys -> Claim]
        /\ named[k].state = "revoked"
        /\ named[k].gen = claim[k].gen /\ named[k].by = claim[k].by
        /\ named[k].rev = claim[k].rev
        /\ \A l \in Keys \ {k} : named[l] = claim[l]
    BY <1>1 DEF TypeOK, Claim
  <2>2. claim' = [named EXCEPT ![k].rev = claim[k].rev + 1]
    BY <1>1 DEF RevokeClaim, TypeOK
  <2> HIDE DEF named
  <2>3. claim[k].rev + 1 \in Nat
    BY <1>1 DEF Claim
  <2>4. /\ claim' \in [Keys -> Claim]
        /\ claim'[k].state = named[k].state
        /\ claim'[k].gen = named[k].gen /\ claim'[k].by = named[k].by
        /\ \A l \in Keys \ {k} : claim'[l] = named[l]
    BY <2>1, <2>2, <2>3 DEF Claim
  <2>5. QED
    BY <2>1, <2>4
<1>5. stream' \in Seq(ClaimEvent)
  <2>1. claim'[k].rev \in Nat
    BY <1>4 DEF Claim
  <2>2. [type |-> "revoked", key |-> k, gen |-> g, rev |-> claim'[k].rev] \in ClaimEvent
    BY <1>2, <2>1 DEF ClaimEvent
  <2>3. QED
    BY <1>1, <2>2 DEF TypeOK
<1>6. device' \in [Keys -> DeviceRow]
  BY <1>1, <1>2, RevokeDeviceType
<1>7. IdentityInv'
  BY <1>1, IdentityKept DEF identityVars
<1>8. ProgressInv'
  <2>1. \A d \in Enrollments \ {e} : ProgressInv!(d)'
    BY <1>1, <1>3 DEF ProgressInv
  <2>2. ProgressInv!(e)'
    BY <1>1, <1>2, <1>3
  <2>3. QED
    BY <2>1, <2>2 DEF ProgressInv
<1>9. GenerationInv'
  BY <1>1, <1>3, GenerationKept
<1>10. ClaimInv'
  <2> SUFFICES ASSUME NEW l \in Keys, claim'[l].state # "none"
               PROVE  /\ ClaimRestsOnItsGrant!(l)!2'
                      /\ claim'[l].gen # 0
                      /\ proposal'[claim'[l].by].state
                            \in {"grant_acknowledged", "claim_revoked"}
    BY DEF ClaimInv, ClaimRestsOnItsGrant
  <2>1. CASE l = k
    BY <1>0, <1>1, <1>2, <1>3, <1>4, <2>1 DEF ClaimInv, ClaimRestsOnItsGrant
  <2>2. CASE l # k
    <3>1. claim'[l] = claim[l] /\ claim[l].by # e
      BY <1>2, <1>4, <2>2 DEF ClaimInv, ClaimRestsOnItsGrant
    <3>2. QED
      BY <1>1, <1>3, <2>2, <3>1 DEF ClaimInv, ClaimRestsOnItsGrant
  <2>3. QED
    BY <2>1, <2>2
<1>11. TypeOK'
  BY <1>1, <1>3, <1>4, <1>5, <1>6 DEF TypeOK, identityVars, standingVars
<1>12. QED
  BY <1>7, <1>8, <1>9, <1>10, <1>11

------------------------------------------------------------------------------
(* The specification keeps the inductive invariant, and what follows from it. *)

LEMMA InitEstablishesInv ==
    ASSUME AdmissionAssumption, Init
    PROVE  AdmissionInv
<1> USE DEF Init
<1>1. NoProposal \in Proposal /\ NoDecision \in Decision /\ NoGrant \in Grant
  BY DEF NoProposal, NoDecision, NoGrant, Proposal, Decision, Grant
<1>2. TypeOK
  BY <1>1 DEF TypeOK, Claim, DeviceRow
<1>3. IdentityInv
  BY DEF IdentityInv, NoProposal
<1>4. ProgressInv
  BY DEF ProgressInv, NoProposal, NoGrant, NoDecision
<1>5. GenerationInv
  <2> SUFFICES ASSUME NEW b \in Bases
               PROVE  /\ \E m \in GrantedGenerations(b) :
                            \A h \in GrantedGenerations(b) : h <= m
                      /\ \A e \in Enrollments : proposal[e].base # b
    BY DEF GenerationInv
  <2>1. \A e \in Enrollments : proposal[e].base # b
    BY DEF NoProposal, AdmissionAssumption
  <2>2. GrantedGenerations(b) = {0}
    BY <2>1 DEF GrantedGenerations
  <2>3. QED
    BY <2>1, <2>2
<1>6. ClaimInv
  BY DEF ClaimInv, ClaimRestsOnItsGrant
<1>7. QED
  BY <1>2, <1>3, <1>4, <1>5, <1>6 DEF AdmissionInv

LEMMA NextKeepsInv ==
    ASSUME AdmissionAssumption, AdmissionInv, [Next]_vars
    PROVE  AdmissionInv'
<1> USE DEF AdmissionInv
<1>1. CASE Tick
  <2>1. IdentityInv' /\ ProgressInv' /\ GenerationInv' /\ ClaimInv'
    BY <1>1, InvKept DEF Tick, claimVars
  <2>2. TypeOK'
    BY <1>1 DEF Tick, TypeOK, identityVars, standingVars, enrollmentVars, claimVars
  <2>3. QED
    BY <2>1, <2>2
<1>2. CASE ExpireDue
  <2>1. /\ IdentityInv' /\ ProgressInv' /\ GenerationInv' /\ ClaimInv'
        /\ proposal' \in [Enrollments -> Proposal]
        /\ grant' \in [Enrollments -> Grant]
    BY <1>2, SweepKeepsInv DEF ExpireDue, claimVars
  <2>2. TypeOK'
    BY <1>2, <2>1 DEF ExpireDue, TypeOK, identityVars, standingVars, claimVars
  <2>3. QED
    BY <2>1, <2>2
<1>3. ASSUME NEW j \in Jtis, NEW k \in Keys, NEW c \in Controllers, RecordStanding(j, k, c)
      PROVE  AdmissionInv'
  <2>1. IdentityInv' /\ ProgressInv' /\ GenerationInv' /\ ClaimInv'
    BY <1>3, InvKept DEF RecordStanding, claimVars
  <2>2. standing' \subseteq Standing
    BY <1>3 DEF RecordStanding, TypeOK, Standing
  <2>3. TypeOK'
    BY <1>3, <2>2 DEF RecordStanding, TypeOK, identityVars, enrollmentVars, claimVars
  <2>4. QED
    BY <2>1, <2>3
<1>4. ASSUME NEW c \in Controllers, WithdrawController(c)
      PROVE  AdmissionInv'
  <2>1. IdentityInv' /\ ProgressInv' /\ GenerationInv' /\ ClaimInv'
    BY <1>4, InvKept DEF WithdrawController, claimVars
  <2>2. withdrawn' \in [Controllers -> Nat]
    <3>1. withdrawn \in [Controllers -> Nat] /\ clock \in Nat
      BY DEF TypeOK
    <3>2. withdrawn' = [withdrawn EXCEPT
             ![c] = IF clock > withdrawn[c] THEN clock ELSE withdrawn[c]]
      BY <1>4 DEF WithdrawController
    <3>3. QED
      BY <3>1, <3>2
  <2>3. silenced' \subseteq Jtis
    <3>1. \A s \in standing : s.jti \in Jtis
      BY DEF TypeOK, Standing
    <3>2. {s.jti : s \in {t \in standing : t.by = c}} \subseteq Jtis
      BY <3>1
    <3>3. silenced' = silenced \cup {s.jti : s \in {t \in standing : t.by = c}}
      BY <1>4 DEF WithdrawController
    <3>4. QED
      BY <3>2, <3>3 DEF TypeOK
  <2>4. TypeOK'
    BY <1>4, <2>2, <2>3 DEF WithdrawController, TypeOK, identityVars, enrollmentVars, claimVars
  <2>5. QED
    BY <2>1, <2>4
<1>5. CASE Create
  BY <1>5, CreateKeepsInv DEF Create
<1>6. ASSUME NEW op \in Operations, NEW e \in Enrollments, Begin(op, e)
      PROVE  AdmissionInv'
  <2>1. /\ IdentityInv' /\ ProgressInv' /\ GenerationInv' /\ ClaimInv'
        /\ proposal' \in [Enrollments -> Proposal]
        /\ grant' \in [Enrollments -> Grant]
    BY <1>6, SweepKeepsInv DEF Begin, claimVars
  <2>2. calls' \subseteq Call
    BY <1>6 DEF Begin, TypeOK, Call, Proposal
  <2>3. TypeOK'
    BY <1>6, <2>1, <2>2 DEF Begin, TypeOK, identityVars, standingVars, claimVars
  <2>4. QED
    BY <2>1, <2>3
<1>7. CASE Conclude
  <2> SUFFICES ASSUME NEW c \in calls, Abandon(c)
               PROVE  AdmissionInv'
    BY <1>7, DecideKeepsInv, CancelKeepsInv, CollectKeepsInv, AcknowledgeKeepsInv
       DEF Conclude
  <2>1. IdentityInv' /\ ProgressInv' /\ GenerationInv' /\ ClaimInv'
    BY InvKept DEF Abandon, claimVars
  <2>2. TypeOK'
    BY DEF Abandon, TypeOK, identityVars, standingVars, enrollmentVars, claimVars
  <2>3. QED
    BY <2>1, <2>2
<1>8. CASE UNCHANGED vars
  <2>1. IdentityInv' /\ ProgressInv' /\ GenerationInv' /\ ClaimInv'
    BY <1>8, InvKept DEF vars, identityVars, enrollmentVars
  <2>2. TypeOK'
    BY <1>8 DEF vars, TypeOK
  <2>3. QED
    BY <2>1, <2>2
<1>9. QED
  BY <1>1, <1>2, <1>3, <1>4, <1>5, <1>6, <1>7, <1>8, RevokeUnclaimedKeepsInv,
     RevokeClaimKeepsInv DEF Next

\* Every reachable state of the Authority satisfies the inductive invariant
THEOREM AdmissionInvariant == Spec => []AdmissionInv
<1>1. Init => AdmissionInv
  BY AdmissionAssumption, InitEstablishesInv
<1>2. AdmissionInv /\ [Next]_vars => AdmissionInv'
  BY AdmissionAssumption, NextKeepsInv
<1>3. QED
  BY <1>1, <1>2, PTL DEF Spec

\* The tables hold rows of their types, whatever the keys and the deadlines are
THEOREM AdmissionTypeOK == Spec => []TypeOK
<1>1. AdmissionInv => TypeOK
  BY DEF AdmissionInv
<1>2. QED
  BY <1>1, AdmissionInvariant, PTL

\* A DeviceRef names one grant: generations counted per hardware identity are
\* unique per key, because a key is bound to one base identity for good
THEOREM DeviceRefsAreUnique == Spec => []DeviceRefNamesOneGrant
<1>1. AdmissionInv => DeviceRefNamesOneGrant
  <2> SUFFICES ASSUME AdmissionInv, NEW d \in Enrollments, NEW e \in Enrollments,
                      grant[d].gen # 0, grant[d].gen = grant[e].gen,
                      proposal[d].key = proposal[e].key
               PROVE  d = e
    BY DEF DeviceRefNamesOneGrant
  <2>1. proposal[d].state # "absent" /\ proposal[e].state # "absent"
    BY DEF AdmissionInv, ProgressInv, NoGrant
  <2>2. proposal[d].base \in Bases /\ proposal[d].base = proposal[e].base
    BY <2>1 DEF AdmissionInv, IdentityInv
  <2>3. QED
    BY <2>2 DEF AdmissionInv, GenerationInv
<1>2. QED
  BY <1>1, AdmissionInvariant, PTL

\* A voucher admits one Proposal and a key keeps one base identity
THEOREM IdentitiesAreBoundOnce == Spec => []VoucherAndBindingAreSpentOnce
<1>1. AdmissionInv => VoucherAndBindingAreSpentOnce
  BY DEF AdmissionInv, IdentityInv, VoucherAndBindingAreSpentOnce
<1>2. QED
  BY <1>1, AdmissionInvariant, PTL

\* A Claim and the grant it came from never disagree
THEOREM ClaimsRestOnGrants == Spec => []ClaimRestsOnItsGrant
<1>1. AdmissionInv => ClaimRestsOnItsGrant
  BY DEF AdmissionInv, ClaimInv
<1>2. QED
  BY <1>1, AdmissionInvariant, PTL

\* An enrollment that ended without a Claim holds no grant in force
THEOREM EndedEnrollmentsHoldNoGrant == Spec => []EndedEnrollmentHoldsNoGrant
<1>1. AdmissionInv => EndedEnrollmentHoldsNoGrant
  BY DEF AdmissionInv, ProgressInv, EndedEnrollmentHoldsNoGrant, NoGrant
<1>2. QED
  BY <1>1, AdmissionInvariant, PTL

\* The Claim columns of a device row follow the Claim; no other table matters
THEOREM DeviceRowsFollowClaims == Spec => []DeviceRowFollowsClaim
<1> DEFINE Inv == AdmissionInv /\ DeviceRowFollowsClaim
<1>1. Init => Inv
  BY AdmissionAssumption, InitEstablishesInv DEF Init, DeviceRowFollowsClaim
<1>2. Inv /\ [Next]_vars => Inv'
  <2> SUFFICES ASSUME AdmissionInv, DeviceRowFollowsClaim, [Next]_vars
               PROVE  DeviceRowFollowsClaim'
    BY AdmissionAssumption, NextKeepsInv
  <2> USE DEF AdmissionInv
  <2>1. CASE UNCHANGED claimVars
    BY <2>1 DEF claimVars, DeviceRowFollowsClaim
  <2>2. ASSUME NEW c \in calls, Acknowledge(c)
        PROVE  DeviceRowFollowsClaim'
    <3> DEFINE k == proposal[c.e].key
               g == grant[c.e].gen
    <3>1. /\ UpsertClaim(k, "active", g, c.e)
          /\ device' = [device EXCEPT
                ![k] = [state |-> "approved", gen |-> g, rev |-> device[k].rev + 1]]
          /\ claim \in [Keys -> Claim] /\ device \in [Keys -> DeviceRow]
      BY <2>2 DEF Acknowledge, TypeOK
    <3> HIDE DEF k, g
    <3>2. QED
      BY <3>1 DEF UpsertClaim, DeviceRowFollowsClaim
  <2>3. ASSUME NEW e \in Enrollments, RevokeUnclaimed(e)
        PROVE  DeviceRowFollowsClaim'
    <3> DEFINE k == proposal[e].key
               g == grant[e].gen
    <3>1. /\ claim[k].state = "none"
          /\ UpsertClaim(k, "revoked", g, e)
          /\ RevokeDevice(k, g)
          /\ claim \in [Keys -> Claim] /\ device \in [Keys -> DeviceRow]
      BY <2>3 DEF RevokeUnclaimed, TypeOK
    <3> HIDE DEF k, g
    <3>2. \A l \in Keys : /\ claim'[l].state = "active" => claim'[l] = claim[l]
                          /\ claim[l].state = "active" => claim'[l] = claim[l]
      BY <3>1 DEF UpsertClaim
    <3>3. \A l \in Keys : \/ device'[l] = device[l]
                          \/ l = k /\ device'[l].state = "revoked"
      <4>1. CASE device' = device
        BY <4>1
      <4>2. CASE device' = [device EXCEPT ![k].state = "revoked", ![k].rev = @ + 1]
        BY <3>1, <4>2 DEF DeviceRow
      <4>3. QED
        BY <3>1, <4>1, <4>2 DEF RevokeDevice
    <3>4. k \in Keys => device[k].state # "approved"
      BY <3>1 DEF DeviceRowFollowsClaim
    <3>5. QED
      BY <3>2, <3>3, <3>4 DEF DeviceRowFollowsClaim
  <2>4. ASSUME NEW k \in Keys, RevokeClaim(k)
        PROVE  DeviceRowFollowsClaim'
    <3>1. /\ claim' = [claim EXCEPT ![k].state = "revoked", ![k].rev = @ + 1]
          /\ RevokeDevice(k, claim[k].gen)
          /\ claim[k].state = "active"
          /\ claim \in [Keys -> Claim] /\ device \in [Keys -> DeviceRow]
      BY <2>4 DEF RevokeClaim, TypeOK
    <3>2. device[k].state = "approved" /\ device[k].gen = claim[k].gen
      BY <3>1 DEF DeviceRowFollowsClaim
    <3>3. device' = [device EXCEPT ![k].state = "revoked", ![k].rev = @ + 1]
      BY <3>1, <3>2 DEF RevokeDevice
    <3>4. /\ device'[k].state = "revoked"
          /\ \A l \in Keys \ {k} : device'[l] = device[l]
      BY <3>1, <3>3 DEF DeviceRow
    <3>5. /\ claim'[k].state = "revoked"
          /\ \A l \in Keys \ {k} : claim'[l] = claim[l]
      BY <3>1 DEF Claim
    <3>6. QED
      BY <3>4, <3>5 DEF DeviceRowFollowsClaim
  <2>5. QED
    BY <2>1, <2>2, <2>3, <2>4 DEF Next, Create, Conclude, vars, claimVars, Tick,
       ExpireDue, RecordStanding, WithdrawController, CreateWithVoucher,
       CreateByContinuation, Begin, Decide, Cancel, Collect, Abandon
<1>3. QED
  BY <1>1, <1>2, PTL DEF Spec

\* Outcomes settle: a terminal Proposal and a written Decision never change
THEOREM OutcomesSettle == Spec => SettledStaysSettled
<1> DEFINE Settled(e) ==
              /\ proposal[e].state \in TerminalStates => proposal'[e] = proposal[e]
              /\ decision[e].verdict # "none" => decision'[e] = decision[e]
<1>1. AdmissionInv /\ [Next]_vars => [\A e \in Enrollments : Settled(e)]_vars
  <2> SUFFICES ASSUME AdmissionInv, Next, NEW e \in Enrollments
               PROVE  Settled(e)
    BY Zenon
  <2> USE DEF AdmissionInv
  <2>1. CASE UNCHANGED <<proposal, decision>>
    BY <2>1
  <2>2. CASE Sweep /\ UNCHANGED decision
    BY <2>2 DEF Sweep, Due, OpenStates, TerminalStates
  <2>3. ASSUME NEW d \in Enrollments, NEW k, NEW b, NEW j, Propose(d, k, b, j)
        PROVE  Settled(e)
    <3>1. proposal[d].state = "absent" /\ decision[d].verdict = "none"
      BY <2>3 DEF Propose, ProgressInv
    <3>2. \A c \in Enrollments \ {d} :
             proposal'[c] = proposal[c] /\ decision'[c] = decision[c]
      BY <2>3 DEF Propose, TypeOK
    <3>3. QED
      BY <3>1, <3>2 DEF TerminalStates
  <2>4. ASSUME NEW c \in calls, Decide(c)
        PROVE  Settled(e)
    <3>1. proposal[c.e].state = "pending_review"
      BY <2>4 DEF Decide, MayBecome
    <3>2. c.e \in Enrollments /\ decision[c.e].verdict = "none"
      BY <3>1 DEF ProgressInv, TypeOK, Call
    <3>3. \A d \in Enrollments \ {c.e} :
             proposal'[d] = proposal[d] /\ decision'[d] = decision[d]
      BY <2>4 DEF Decide, TypeOK
    <3>4. QED
      BY <3>1, <3>2, <3>3 DEF TerminalStates
  <2>5. ASSUME NEW d \in Enrollments, NEW to,
               MayBecome(proposal[d].state, to),
               proposal' = [proposal EXCEPT ![d] = Moved(d, to)],
               decision' = decision
        PROVE  Settled(e)
    <3>1. proposal[d].state \notin TerminalStates
      BY <2>5 DEF MayBecome, TerminalStates
    <3>2. \A c \in Enrollments \ {d} : proposal'[c] = proposal[c]
      BY <2>5 DEF TypeOK
    <3>3. QED
      BY <2>5, <3>1, <3>2
  <2>6. ASSUME NEW c \in calls, Cancel(c) \/ Acknowledge(c)
        PROVE  Settled(e)
    BY <2>5, <2>6 DEF Cancel, Acknowledge, TypeOK, Call
  <2>7. ASSUME NEW c \in calls, Collect(c)
        PROVE  Settled(e)
    <3>1. c.e \in Enrollments /\ proposal[c.e].state \notin TerminalStates
          /\ decision' = decision
      BY <2>7 DEF Collect, TypeOK, Call, TerminalStates
    <3>2. \A d \in Enrollments \ {c.e} : proposal'[d] = proposal[d]
      BY <2>7 DEF Collect, TypeOK
    <3>3. QED
      BY <3>1, <3>2
  <2>8. ASSUME NEW d \in Enrollments, RevokeUnclaimed(d)
        PROVE  Settled(e)
    BY <2>5, <2>8 DEF RevokeUnclaimed
  <2> HIDE DEF Settled
  <2>9. CASE Create
    BY <2>3, <2>9 DEF Create, CreateWithVoucher, CreateByContinuation
  <2>10. CASE Conclude
    BY <2>1, <2>4, <2>6, <2>7, <2>10 DEF Conclude, Abandon, enrollmentVars
  <2>11. QED
    BY <2>1, <2>2, <2>8, <2>9, <2>10 DEF Next, Tick, ExpireDue, RecordStanding,
       WithdrawController, Begin, RevokeClaim, enrollmentVars
<1>2. QED
  BY <1>1, AdmissionInvariant, PTL DEF Spec, SettledStaysSettled

------------------------------------------------------------------------------
(* The Claim event stream implements ClaimLifecycle. *)

\* Each key has a last event, and no event is newer than the row of its key
StreamOrdered ==
    \A k \in Keys :
        /\ EventsOf(k) # {} => \E i \in EventsOf(k) : \A j \in EventsOf(k) : j <= i
        /\ \A i \in EventsOf(k) : stream[i].rev <= claim[k].rev
        /\ claim[k].state = "none" => claim[k].rev = 0

\* Every event is about the grant of an enrollment that is over
StreamBacked ==
    \A i \in DOMAIN stream : \E e \in Enrollments :
        /\ proposal[e].key = stream[i].key
        /\ grant[e].gen = stream[i].gen
        /\ grant[e].gen # 0
        /\ proposal[e].state \in {"grant_acknowledged", "claim_revoked"}

\* The stream and the Claim table tell one story
StreamInv == StreamReplaysToClaims /\ StreamOrdered /\ StreamBacked

\* The type an event of a Claim in this state has
EventType(state) == IF state = "active" THEN "activated" ELSE "revoked"

\* The transaction wrote the Claim of k at generation g and publishes it
Publication(type, k, g) ==
    /\ claim'[k].state # "none" /\ type = EventType(claim'[k].state)
    /\ claim'[k].gen = g /\ claim'[k].rev = claim[k].rev + 1
    /\ \A l \in Keys \ {k} : claim'[l] = claim[l]
    /\ Publish(type, k, g)

\* Publishing a Claim in the transaction that wrote it: the stream is extended as
\* the lifecycle allows, and still replays to the table
LEMMA PublishKeepsReplay ==
    ASSUME TypeOK, StreamInv, NEW k \in Keys, NEW type, NEW g,
           Publication(type, k, g)
    PROVE  /\ Lifecycle!Extend(type, k, g)
           /\ StreamReplaysToClaims'
           /\ StreamOrdered'
           /\ DOMAIN stream' = DOMAIN stream \cup {Len(stream) + 1}
           /\ \A i \in DOMAIN stream : stream'[i] = stream[i]
           /\ stream'[Len(stream) + 1].key = k /\ stream'[Len(stream) + 1].gen = g
<1> USE DEF Publication
<1> DEFINE n == Len(stream) + 1
           event == [type |-> type, key |-> k, gen |-> g, rev |-> claim[k].rev + 1]
<1>1. stream \in Seq(ClaimEvent) /\ stream' = Append(stream, event)
  BY DEF Publish, TypeOK
<1>2. /\ DOMAIN stream = 1 .. Len(stream) /\ Len(stream) \in Nat
      /\ DOMAIN stream' = DOMAIN stream \cup {n}
      /\ \A i \in DOMAIN stream : stream'[i] = stream[i]
      /\ stream'[n] = event
      /\ \A i \in DOMAIN stream : i < n /\ i \in Nat
  BY <1>1
<1>3. /\ EventsOf(k)' = EventsOf(k) \cup {n}
      /\ \A l \in Keys \ {k} : EventsOf(l)' = EventsOf(l)
  BY <1>2 DEF EventsOf
<1>4. /\ n \in Nat
      /\ \A l \in Keys : /\ EventsOf(l) \subseteq DOMAIN stream
                        /\ \A i \in EventsOf(l) : i \in Nat /\ i < n
  BY <1>2 DEF EventsOf
<1>5. \A l \in Keys : claim[l].rev \in Nat
  BY DEF TypeOK, Claim
<1>6. \A i \in DOMAIN stream : stream[i].rev \in Nat
  <2>1. \A i \in DOMAIN stream : stream[i] \in ClaimEvent
    BY <1>1
  <2>2. QED
    BY <2>1 DEF ClaimEvent
<1> HIDE DEF n
<1>7. Lifecycle!Extend(type, k, g)
  <2>1. Lifecycle!Of(k) = EventsOf(k)
    BY DEF Lifecycle!Of, EventsOf
  <2>2. \A i \in EventsOf(k) : stream[i].rev < claim[k].rev + 1
    BY <1>4, <1>5, <1>6 DEF StreamInv, StreamOrdered
  <2>3. claim[k].rev + 1 \in {1} \cup {stream[i].rev + 1 : i \in EventsOf(k)}
    <3>1. CASE EventsOf(k) = {}
      BY <3>1 DEF StreamInv, StreamOrdered, StreamReplaysToClaims
    <3>2. CASE EventsOf(k) # {}
      BY <3>2 DEF StreamInv, StreamOrdered, StreamReplaysToClaims
    <3>3. QED
      BY <3>1, <3>2
  <2>4. QED
    BY <1>1, <2>1, <2>2, <2>3 DEF Lifecycle!Extend
<1>8. StreamReplaysToClaims'
  <2> SUFFICES ASSUME NEW l \in Keys
               PROVE  /\ EventsOf(l)' = {} <=> claim'[l].state = "none"
                      /\ \A i \in EventsOf(l)' : (\A j \in EventsOf(l)' : j <= i) =>
                            /\ stream'[i].type = EventType(claim'[l].state)
                            /\ stream'[i].gen = claim'[l].gen
                            /\ stream'[i].rev = claim'[l].rev
    BY DEF StreamReplaysToClaims, EventType
  <2>1. CASE l # k
    BY <1>2, <1>3, <1>4, <2>1 DEF StreamInv, StreamReplaysToClaims, EventType
  <2>2. CASE l = k
    <3>1. \A i \in EventsOf(k)' : (\A j \in EventsOf(k)' : j <= i) => i = n
      BY <1>3, <1>4
    <3>2. /\ stream'[n].type = EventType(claim'[k].state)
          /\ stream'[n].gen = claim'[k].gen
          /\ stream'[n].rev = claim'[k].rev
      BY <1>2
    <3>3. EventsOf(k)' # {} /\ claim'[k].state # "none"
      BY <1>3
    <3>4. QED
      BY <2>2, <3>1, <3>2, <3>3
  <2>3. QED
    BY <2>1, <2>2
<1>9. StreamOrdered'
  <2> SUFFICES ASSUME NEW l \in Keys
               PROVE  /\ EventsOf(l)' # {} =>
                            \E i \in EventsOf(l)' : \A j \in EventsOf(l)' : j <= i
                      /\ \A i \in EventsOf(l)' : stream'[i].rev <= claim'[l].rev
                      /\ claim'[l].state = "none" => claim'[l].rev = 0
    BY DEF StreamOrdered
  <2>1. CASE l # k
    BY <1>2, <1>3, <1>4, <2>1 DEF StreamInv, StreamOrdered
  <2>2. CASE l = k
    <3>1. n \in EventsOf(k)' /\ \A j \in EventsOf(k)' : j <= n
      BY <1>3, <1>4
    <3>2. \A i \in EventsOf(k)' : stream'[i].rev <= claim'[k].rev
      BY <1>2, <1>3, <1>4, <1>5, <1>6 DEF StreamInv, StreamOrdered
    <3>3. QED
      BY <2>2, <3>1, <3>2
  <2>3. QED
    BY <2>1, <2>2
<1>10. QED
  BY <1>2, <1>7, <1>8, <1>9 DEF n

\* What was granted stays granted, and an enrollment that is over stays over
GrantsStay ==
    \A e \in Enrollments :
        /\ grant[e].gen # 0 =>
              proposal'[e].key = proposal[e].key /\ grant'[e].gen = grant[e].gen
        /\ proposal[e].state \in {"grant_acknowledged", "claim_revoked"} =>
              proposal'[e].state = proposal[e].state

LEMMA GrantsAlwaysStay ==
    ASSUME AdmissionInv, Next
    PROVE  GrantsStay
<1> USE DEF AdmissionInv
<1>1. CASE UNCHANGED <<proposal, grant>>
  BY <1>1 DEF GrantsStay
<1>2. CASE Sweep
  <2>1. \A e \in Enrollments :
           /\ \/ proposal'[e] = proposal[e]
              \/ proposal[e].state \in OpenStates /\ proposal'[e] = Moved(e, "expired")
           /\ \/ grant'[e] = grant[e]
              \/ grant'[e] = [grant[e] EXCEPT !.revoked = TRUE]
    BY <1>2 DEF Sweep, Due
  <2>2. \A e \in Enrollments : Moved(e, "expired").key = proposal[e].key
    BY MovedProposal DEF TerminalStates
  <2>3. \A e \in Enrollments : grant[e] \in Grant
    BY DEF TypeOK
  <2>4. \A e \in Enrollments : grant'[e].gen = grant[e].gen
    BY <2>1, <2>3 DEF Grant
  <2>5. QED
    BY <2>1, <2>2, <2>4 DEF GrantsStay, OpenStates
<1>3. ASSUME NEW d \in Enrollments, grant[d].gen = 0,
             proposal[d].state \in {"absent", "pending_review"},
             \A e \in Enrollments \ {d} : proposal'[e] = proposal[e] /\ grant'[e] = grant[e]
      PROVE  GrantsStay
  BY <1>3 DEF GrantsStay
<1>4. ASSUME NEW d \in Enrollments, NEW k, NEW b, NEW j, Propose(d, k, b, j)
      PROVE  GrantsStay
  <2>1. proposal[d].state = "absent" /\ grant[d].gen = 0
    BY <1>4 DEF Propose, ProgressInv, NoGrant
  <2>2. \A e \in Enrollments \ {d} : proposal'[e] = proposal[e] /\ grant'[e] = grant[e]
    BY <1>4 DEF Propose, TypeOK
  <2>3. QED
    BY <1>3, <2>1, <2>2
<1>5. ASSUME NEW c \in calls, Decide(c)
      PROVE  GrantsStay
  <2>1. proposal[c.e].state = "pending_review" /\ c.e \in Enrollments
    BY <1>5 DEF Decide, MayBecome, TypeOK, Call
  <2>2. grant[c.e].gen = 0
    BY <2>1 DEF ProgressInv, NoGrant
  <2>3. \A e \in Enrollments \ {c.e} : proposal'[e] = proposal[e] /\ grant'[e] = grant[e]
    BY <1>5 DEF Decide, TypeOK
  <2>4. QED
    BY <1>3, <2>1, <2>2, <2>3
<1>6. ASSUME NEW d \in Enrollments, NEW to \in OpenStates \cup TerminalStates,
             proposal[d].state \notin {"absent", "grant_acknowledged", "claim_revoked"},
             proposal' = [proposal EXCEPT ![d] = Moved(d, to)],
             \A e \in Enrollments : grant'[e].gen = grant[e].gen
      PROVE  GrantsStay
  <2>1. Moved(d, to).key = proposal[d].key
    BY MovedProposal
  <2>2. proposal'[d] = Moved(d, to)
        /\ \A e \in Enrollments \ {d} : proposal'[e] = proposal[e]
    BY <1>6 DEF TypeOK
  <2>3. QED
    BY <1>6, <2>1, <2>2 DEF GrantsStay
<1>7. ASSUME NEW c \in calls, Cancel(c)
      PROVE  GrantsStay
  BY <1>6, <1>7 DEF Cancel, MayBecome, TerminalStates, TypeOK, Call
<1>8. ASSUME NEW c \in calls, Collect(c)
      PROVE  GrantsStay
  <2>1. CASE UNCHANGED <<proposal, grant>>
    BY <1>1, <2>1
  <2>2. CASE ~grant[c.e].delivered
    <3>1. c.e \in Enrollments /\ grant \in [Enrollments -> Grant]
          /\ grant' = [grant EXCEPT ![c.e].delivered = TRUE]
      BY <1>8, <2>2 DEF Collect, TypeOK, Call
    <3>2. \A e \in Enrollments : grant'[e].gen = grant[e].gen
      BY <3>1 DEF Grant
    <3>3. QED
      BY <1>6, <1>8, <2>2, <3>1, <3>2 DEF Collect, OpenStates
  <2>3. QED
    BY <1>8, <2>1, <2>2 DEF Collect
<1>9. ASSUME NEW c \in calls, Acknowledge(c)
      PROVE  GrantsStay
  <2>1. c.e \in Enrollments /\ grant \in [Enrollments -> Grant]
        /\ grant' = [grant EXCEPT ![c.e].acked = TRUE]
    BY <1>9 DEF Acknowledge, TypeOK, Call
  <2>2. \A e \in Enrollments : grant'[e].gen = grant[e].gen
    BY <2>1 DEF Grant
  <2>3. QED
    BY <1>6, <1>9, <2>1, <2>2 DEF Acknowledge, MayBecome, TerminalStates
<1>10. ASSUME NEW d \in Enrollments, RevokeUnclaimed(d)
       PROVE  GrantsStay
  <2>1. grant \in [Enrollments -> Grant] /\ grant' = [grant EXCEPT ![d].revoked = TRUE]
    BY <1>10 DEF RevokeUnclaimed, TypeOK
  <2>2. \A e \in Enrollments : grant'[e].gen = grant[e].gen
    BY <2>1 DEF Grant
  <2>3. QED
    BY <1>6, <1>10, <2>2 DEF RevokeUnclaimed, MayBecome, TerminalStates
<1>11. ASSUME NEW k \in Keys, RevokeClaim(k)
       PROVE  GrantsStay
  <2>1. /\ grant \in [Enrollments -> Grant]
        /\ grant' = [grant EXCEPT ![claim[k].by].revoked = TRUE]
        /\ proposal' = proposal
    BY <1>11 DEF RevokeClaim, TypeOK
  <2>2. \A e \in Enrollments : grant'[e].gen = grant[e].gen
    BY <2>1 DEF Grant
  <2>3. QED
    BY <2>1, <2>2 DEF GrantsStay
<1>12. CASE Create
  BY <1>4, <1>12 DEF Create, CreateWithVoucher, CreateByContinuation
<1>13. CASE Conclude
  BY <1>1, <1>5, <1>7, <1>8, <1>9, <1>13 DEF Conclude, Abandon, enrollmentVars
<1>14. QED
  BY <1>1, <1>2, <1>10, <1>11, <1>12, <1>13 DEF Next, Tick, ExpireDue, RecordStanding,
     WithdrawController, Begin, enrollmentVars

\* Only these three actions touch the Claim table and its stream
LEMMA ClaimActions ==
    ASSUME Next, ~UNCHANGED claimVars
    PROVE  \/ \E c \in calls : Acknowledge(c)
           \/ \E e \in Enrollments : RevokeUnclaimed(e)
           \/ \E k \in Keys : RevokeClaim(k)
BY DEF Next, Create, Conclude, Tick, ExpireDue, RecordStanding, WithdrawController,
       CreateWithVoucher, CreateByContinuation, Begin, Decide, Cancel, Collect, Abandon

\* An event about the grant of enrollment e, which is over with this step
LEMMA PublishKeepsStreamInv ==
    ASSUME AdmissionInv, StreamInv, GrantsStay, NEW k \in Keys, NEW type, NEW g \in Nat \ {0},
           Publication(type, k, g),
           NEW e \in Enrollments, proposal'[e].key = k, grant'[e].gen = g,
           proposal'[e].state \in {"grant_acknowledged", "claim_revoked"}
    PROVE  StreamInv' /\ Lifecycle!Extend(type, k, g)
<1>1. TypeOK
  BY DEF AdmissionInv
<1>2. /\ Lifecycle!Extend(type, k, g)
      /\ StreamReplaysToClaims'
      /\ StreamOrdered'
      /\ DOMAIN stream' = DOMAIN stream \cup {Len(stream) + 1}
      /\ \A i \in DOMAIN stream : stream'[i] = stream[i]
      /\ stream'[Len(stream) + 1].key = k /\ stream'[Len(stream) + 1].gen = g
  BY <1>1, PublishKeepsReplay
<1> DEFINE Backed(i) == \E d \in Enrollments :
              /\ proposal[d].key = stream[i].key
              /\ grant[d].gen = stream[i].gen
              /\ grant[d].gen # 0
              /\ proposal[d].state \in {"grant_acknowledged", "claim_revoked"}
           BackedThen(i) == \E d \in Enrollments :
              /\ proposal'[d].key = stream'[i].key
              /\ grant'[d].gen = stream'[i].gen
              /\ grant'[d].gen # 0
              /\ proposal'[d].state \in {"grant_acknowledged", "claim_revoked"}
<1>3. \A i \in DOMAIN stream : Backed(i)
  BY DEF StreamInv, StreamBacked
<1>4. \A i \in DOMAIN stream : BackedThen(i)
  <2> SUFFICES ASSUME NEW i \in DOMAIN stream
               PROVE  BackedThen(i)
    OBVIOUS
  <2>1. PICK d \in Enrollments :
           /\ proposal[d].key = stream[i].key
           /\ grant[d].gen = stream[i].gen
           /\ grant[d].gen # 0
           /\ proposal[d].state \in {"grant_acknowledged", "claim_revoked"}
    BY <1>3
  <2>2. /\ proposal'[d].key = proposal[d].key /\ grant'[d].gen = grant[d].gen
        /\ proposal'[d].state = proposal[d].state
    BY <2>1 DEF GrantsStay
  <2>3. QED
    BY <1>2, <2>1, <2>2
<1>5. BackedThen(Len(stream) + 1)
  BY <1>2
<1>6. \A i \in DOMAIN stream' : BackedThen(i)
  BY <1>2, <1>4, <1>5
<1>7. StreamInv'
  BY <1>2, <1>6 DEF StreamInv, StreamBacked
<1>8. QED
  BY <1>2, <1>7

\* Every step of the Authority is a step of the lifecycle, or none
LEMMA StepsImplementLifecycle ==
    ASSUME AdmissionAssumption, AdmissionInv, StreamInv, [Next]_vars
    PROVE  StreamInv' /\ [Lifecycle!Next]_<<Issued, stream>>
<1> USE DEF AdmissionInv
<1>1. CASE UNCHANGED vars
  <2>1. Issued' = Issued /\ UNCHANGED <<proposal, grant, claim, stream>>
    BY <1>1 DEF vars, Issued
  <2>2. \A k \in Keys : EventsOf(k)' = EventsOf(k)
    BY <2>1 DEF EventsOf
  <2>3. StreamInv'
    BY <2>1, <2>2 DEF StreamInv, StreamOrdered, StreamBacked, StreamReplaysToClaims
  <2>4. QED
    BY <2>1, <2>3
<1>2. CASE Next
  <2>1. GrantsStay
    BY <1>2, GrantsAlwaysStay
  <2>2. Issued \subseteq Issued'
    BY <2>1 DEF GrantsStay, Issued
  <2>3. CASE UNCHANGED claimVars
    <3>1. UNCHANGED <<claim, stream>>
      BY <2>3 DEF claimVars
    <3>2. \A k \in Keys : EventsOf(k)' = EventsOf(k)
      BY <3>1 DEF EventsOf
    <3>3. StreamReplaysToClaims'
      BY <3>1, <3>2 DEF StreamInv, StreamOrdered, StreamReplaysToClaims
    <3>4. \A i \in DOMAIN stream : \E e \in Enrollments :
             /\ proposal'[e].key = stream[i].key
             /\ grant'[e].gen = stream[i].gen
             /\ grant'[e].gen # 0
             /\ proposal'[e].state \in {"grant_acknowledged", "claim_revoked"}
      BY <2>1 DEF StreamInv, StreamBacked, GrantsStay
    <3>5. StreamInv'
      BY <3>1, <3>2, <3>3, <3>4 DEF StreamInv, StreamOrdered, StreamBacked
    <3>6. Lifecycle!Next
      BY <2>2, <3>1 DEF Lifecycle!Next, Lifecycle!Issue
    <3>7. QED
      BY <3>5, <3>6
  <2>4. ASSUME NEW c \in calls, Acknowledge(c)
        PROVE  StreamInv' /\ Lifecycle!Next
    <3> DEFINE e == c.e
               k == proposal[e].key
               g == grant[e].gen
    <3>1. e \in Enrollments /\ proposal[e].state = "grant_delivered"
      BY <2>4 DEF TypeOK, Call, Acknowledge, MayBecome
    <3>2. k \in Keys /\ g \in Nat \ {0} /\ claim \in [Keys -> Claim]
          /\ grant \in [Enrollments -> Grant]
      BY <2>4, <3>1 DEF IdentityInv, TypeOK, Grant, Acknowledge
    <3>3. /\ UpsertClaim(k, "active", g, e)
          /\ Publish("activated", k, g)
          /\ proposal' = [proposal EXCEPT ![e] = Moved(e, "grant_acknowledged")]
          /\ grant' = [grant EXCEPT ![e].acked = TRUE]
      BY <2>4 DEF Acknowledge
    <3>4. proposal'[e].key = k /\ proposal'[e].state = "grant_acknowledged"
          /\ grant'[e].gen = g
          /\ \A d \in Enrollments : /\ proposal'[d].key = proposal[d].key
                                    /\ grant'[d].gen = grant[d].gen
      BY <3>1, <3>2, <3>3, MovedProposal DEF TypeOK, TerminalStates, Grant
    <3>5. <<k, g>> \in Issued /\ Issued' = Issued
      BY <3>1, <3>2, <3>4 DEF Issued
    <3> HIDE DEF e
    <3>6. \A i \in Lifecycle!Of(k) : stream[i].gen # g
      <4> SUFFICES ASSUME NEW i \in DOMAIN stream, stream[i].key = k, stream[i].gen = g
                   PROVE  FALSE
        BY DEF Lifecycle!Of
      <4>1. PICK d \in Enrollments :
               /\ proposal[d].key = k /\ grant[d].gen = g
               /\ proposal[d].state \in {"grant_acknowledged", "claim_revoked"}
        BY DEF StreamInv, StreamBacked
      <4>2. proposal[d].base \in Bases /\ proposal[d].base = proposal[e].base
        BY <3>1, <4>1 DEF IdentityInv
      <4>3. d = e
        BY <3>1, <3>2, <4>1, <4>2 DEF GenerationInv
      <4>4. QED
        BY <3>1, <4>1, <4>3
    <3> HIDE DEF k, g
    <3>7. /\ claim'[k].state = "active"
          /\ claim'[k].gen = g /\ claim'[k].rev = claim[k].rev + 1
          /\ \A l \in Keys \ {k} : claim'[l] = claim[l]
      BY <3>2, <3>3 DEF UpsertClaim
    <3>8. StreamInv' /\ Lifecycle!Extend("activated", k, g)
      BY <2>1, <3>1, <3>2, <3>3, <3>4, <3>7, PublishKeepsStreamInv DEF EventType, Publication
    <3>9. Lifecycle!Activate(k, g)
      BY <3>5, <3>6, <3>8 DEF Lifecycle!Activate
    <3>10. Lifecycle!Next
      BY <3>5, <3>9 DEF Lifecycle!Next
    <3>11. QED
      BY <3>8, <3>10
  <2>5. ASSUME NEW e \in Enrollments, RevokeUnclaimed(e)
        PROVE  StreamInv' /\ Lifecycle!Next
    <3> DEFINE k == proposal[e].key
               g == grant[e].gen
    <3>1. proposal[e].state \in {"approved_awaiting_handoff", "grant_delivered"}
      BY <2>5 DEF RevokeUnclaimed, MayBecome
    <3>2. k \in Keys /\ g \in Nat \ {0} /\ claim \in [Keys -> Claim]
          /\ grant \in [Enrollments -> Grant]
      BY <2>5, <3>1 DEF IdentityInv, TypeOK, Grant, RevokeUnclaimed
    <3>3. /\ UpsertClaim(k, "revoked", g, e)
          /\ Publish("revoked", k, g)
          /\ proposal' = [proposal EXCEPT ![e] = Moved(e, "claim_revoked")]
          /\ grant' = [grant EXCEPT ![e].revoked = TRUE]
          /\ claim[k].state = "none"
      BY <2>5 DEF RevokeUnclaimed
    <3>4. proposal'[e].key = k /\ proposal'[e].state = "claim_revoked"
          /\ grant'[e].gen = g
          /\ \A d \in Enrollments : /\ proposal'[d].key = proposal[d].key
                                    /\ grant'[d].gen = grant[d].gen
      BY <3>1, <3>2, <3>3, MovedProposal DEF TypeOK, TerminalStates, Grant
    <3>5. <<k, g>> \in Issued /\ Issued' = Issued
      BY <3>2, <3>4 DEF Issued
    <3>6. Lifecycle!Of(k) = {}
      BY <3>2, <3>3 DEF Lifecycle!Of, StreamInv, StreamReplaysToClaims, EventsOf
    <3> HIDE DEF k, g
    <3>7. /\ claim'[k].state = "revoked"
          /\ claim'[k].gen = g /\ claim'[k].rev = claim[k].rev + 1
          /\ \A l \in Keys \ {k} : claim'[l] = claim[l]
      BY <3>2, <3>3 DEF UpsertClaim
    <3>8. StreamInv' /\ Lifecycle!Extend("revoked", k, g)
      BY <2>1, <3>2, <3>3, <3>4, <3>7, PublishKeepsStreamInv DEF EventType, Publication
    <3>9. Lifecycle!Revoke(k, g)
      BY <3>5, <3>6, <3>8 DEF Lifecycle!Revoke
    <3>10. Lifecycle!Next
      BY <3>5, <3>9 DEF Lifecycle!Next
    <3>11. QED
      BY <3>8, <3>10
  <2>6. ASSUME NEW k \in Keys, RevokeClaim(k)
        PROVE  StreamInv' /\ Lifecycle!Next
    <3> DEFINE g == claim[k].gen
    <3>1. PICK e \in Enrollments : e = claim[k].by
      BY <2>6 DEF RevokeClaim, ClaimInv, ClaimRestsOnItsGrant
    <3>2. /\ claim[k].state = "active" /\ claim[k] \in Claim
          /\ g \in Nat \ {0}
          /\ proposal[e].key = k /\ grant[e].gen = g
          /\ proposal[e].state = "grant_acknowledged"
      BY <2>6, <3>1 DEF RevokeClaim, ClaimInv, ClaimRestsOnItsGrant, TypeOK, Claim
    <3>3. /\ Publish("revoked", k, g)
          /\ proposal' = proposal
          /\ grant \in [Enrollments -> Grant]
          /\ grant' = [grant EXCEPT ![e].revoked = TRUE]
      BY <2>6, <3>1 DEF RevokeClaim, TypeOK
    <3>4. \A d \in Enrollments : grant'[d].gen = grant[d].gen
      BY <3>3 DEF Grant
    <3>5. <<k, g>> \in Issued /\ Issued' = Issued
      BY <3>2, <3>3, <3>4 DEF Issued
    <3>6. /\ claim'[k].state = "revoked"
          /\ claim'[k].gen = g /\ claim'[k].rev = claim[k].rev + 1
          /\ \A l \in Keys \ {k} : claim'[l] = claim[l]
      <4> DEFINE named == [claim EXCEPT ![k].state = "revoked"]
      <4>1. /\ named \in [Keys -> Claim]
            /\ named[k].state = "revoked"
            /\ named[k].gen = g
            /\ \A l \in Keys \ {k} : named[l] = claim[l]
        BY <3>2 DEF TypeOK, Claim
      <4>2. claim' = [named EXCEPT ![k].rev = claim[k].rev + 1]
        BY <2>6 DEF RevokeClaim, TypeOK
      <4> HIDE DEF named
      <4>3. QED
        BY <4>1, <4>2 DEF Claim
    <3>7. Lifecycle!Lives(k, g)
      <4>1. EventsOf(k) = Lifecycle!Of(k)
        BY DEF Lifecycle!Of, EventsOf
      <4>2. PICK i \in EventsOf(k) : \A j \in EventsOf(k) : j <= i
        BY <3>2 DEF StreamInv, StreamOrdered, StreamReplaysToClaims
      <4>3. stream[i].type = "activated" /\ stream[i].gen = g
        BY <3>2, <4>2 DEF StreamInv, StreamOrdered, StreamReplaysToClaims
      <4>4. QED
        BY <4>1, <4>2, <4>3 DEF Lifecycle!Lives
    <3> HIDE DEF g
    <3>8. StreamInv' /\ Lifecycle!Extend("revoked", k, g)
      BY <2>1, <3>2, <3>3, <3>4, <3>6, PublishKeepsStreamInv DEF EventType, Publication
    <3>9. Lifecycle!Revoke(k, g)
      BY <3>5, <3>7, <3>8 DEF Lifecycle!Revoke
    <3>10. Lifecycle!Next
      BY <3>5, <3>9 DEF Lifecycle!Next
    <3>11. QED
      BY <3>8, <3>10
  <2>7. QED
    BY <1>2, <2>3, <2>4, <2>5, <2>6, ClaimActions
<1>3. QED
  BY <1>1, <1>2

\* The stream is a lifecycle: whatever the Authority does inside, its consumers
\* see each generation of a body live at most once and only after it was issued
THEOREM StreamImplementsLifecycle == Spec => StreamIsALifecycle
<1> DEFINE Inv == AdmissionInv /\ StreamInv
<1>1. Init => Inv /\ Lifecycle!Init
  <2> SUFFICES ASSUME Init
               PROVE  Inv /\ Lifecycle!Init
    OBVIOUS
  <2>1. AdmissionInv
    BY AdmissionAssumption, InitEstablishesInv
  <2>2. stream = <<>> /\ DOMAIN stream = {}
    BY DEF Init
  <2>3. \A k \in Keys : EventsOf(k) = {}
    BY <2>2 DEF EventsOf
  <2>4. StreamInv
    BY <2>2, <2>3 DEF Init, StreamInv, StreamOrdered, StreamBacked, StreamReplaysToClaims
  <2>5. Issued = {}
    BY DEF Init, Issued, NoGrant
  <2>6. QED
    BY <2>1, <2>2, <2>4, <2>5 DEF Lifecycle!Init
<1>2. Inv /\ [Next]_vars => Inv' /\ [Lifecycle!Next]_<<Issued, stream>>
  BY AdmissionAssumption, NextKeepsInv, StepsImplementLifecycle
<1>3. QED
  BY <1>1, <1>2, PTL DEF Spec, StreamIsALifecycle, Lifecycle!Spec

\* A reader of the stream that replays it arrives at the Claim table
THEOREM StreamReplays == Spec => []StreamReplaysToClaims
<1> DEFINE Inv == AdmissionInv /\ StreamInv
<1>1. Init => Inv
  <2> SUFFICES ASSUME Init
               PROVE  Inv
    OBVIOUS
  <2>1. \A k \in Keys : EventsOf(k) = {}
    BY DEF Init, EventsOf
  <2>2. StreamInv
    BY <2>1 DEF Init, StreamInv, StreamOrdered, StreamBacked, StreamReplaysToClaims
  <2>3. QED
    BY <2>2, AdmissionAssumption, InitEstablishesInv
<1>2. Inv /\ [Next]_vars => Inv'
  BY AdmissionAssumption, NextKeepsInv, StepsImplementLifecycle
<1>3. Inv => StreamReplaysToClaims
  BY DEF StreamInv
<1>4. QED
  BY <1>1, <1>2, <1>3, PTL DEF Spec

------------------------------------------------------------------------------
(* Standing, and the way back of a body that was removed. *)

\* A silenced voucher has a standing row, and one its withdrawal postdates
StandingInv ==
    /\ \A s, t \in standing : s.jti = t.jti => s = t
    /\ \A s \in standing : s.at <= clock
    /\ \A j \in silenced : \E s \in standing : s.jti = j /\ withdrawn[s.by] >= s.at

\* A Decision that is not written names no standing
UndecidedInv ==
    \A e \in Enrollments : decision[e].verdict = "none" => decision[e].standing = None

LEMMA NextKeepsStanding ==
    ASSUME AdmissionInv, StandingInv, [Next]_vars
    PROVE  StandingInv'
<1> USE DEF StandingInv
<1>1. TypeOK
  BY DEF AdmissionInv
<1>2. \A s \in standing : /\ s \in Standing /\ s.jti \in Jtis /\ s.by \in Controllers
                          /\ s.at \in Nat
  BY <1>1 DEF TypeOK, Standing
<1>3. clock \in Nat /\ withdrawn \in [Controllers -> Nat]
  BY <1>1 DEF TypeOK
<1>4. CASE UNCHANGED standingVars /\ clock' \in {clock, clock + 1}
  BY <1>2, <1>3, <1>4 DEF standingVars
<1>5. ASSUME NEW j \in Jtis, NEW k \in Keys, NEW c \in Controllers, RecordStanding(j, k, c)
      PROVE  StandingInv'
  <2> DEFINE row == [jti |-> j, key |-> k, by |-> c, at |-> clock]
  <2>1. /\ \A s \in standing : s.jti # j
        /\ standing' = standing \cup {row}
        /\ row.jti = j /\ row.at = clock
        /\ clock' = clock /\ withdrawn' = withdrawn /\ silenced' = silenced
    BY <1>5 DEF RecordStanding
  <2> HIDE DEF row
  <2>2. QED
    BY <1>2, <1>3, <2>1
<1>6. ASSUME NEW c \in Controllers, WithdrawController(c)
      PROVE  StandingInv'
  <2>1. /\ withdrawn' = [withdrawn EXCEPT
              ![c] = IF clock > withdrawn[c] THEN clock ELSE withdrawn[c]]
        /\ clock' = clock /\ standing' = standing
        /\ silenced' = silenced \cup {s.jti : s \in {t \in standing : t.by = c}}
    BY <1>6 DEF WithdrawController
  <2>2. /\ \A d \in Controllers : withdrawn'[d] \in Nat /\ withdrawn'[d] >= withdrawn[d]
        /\ withdrawn'[c] >= clock
    BY <1>3, <2>1
  <2>3. \A j \in silenced' : \E s \in standing : s.jti = j /\ withdrawn'[s.by] >= s.at
    <3> SUFFICES ASSUME NEW j \in silenced'
                 PROVE  \E s \in standing : s.jti = j /\ withdrawn'[s.by] >= s.at
      OBVIOUS
    <3>1. CASE j \in silenced
      BY <1>2, <1>3, <2>2, <3>1
    <3>2. CASE j \notin silenced
      <4>1. PICK s \in standing : s.by = c /\ s.jti = j
        BY <2>1, <3>2
      <4>2. QED
        BY <1>2, <1>3, <2>2, <4>1
    <3>3. QED
      BY <3>1, <3>2
  <2>4. QED
    BY <2>1, <2>3
<1>7. CASE UNCHANGED vars
  BY <1>4, <1>7 DEF vars, standingVars
<1>8. QED
  BY <1>4, <1>5, <1>6, <1>7 DEF Next, Create, Conclude, Tick, ExpireDue,
     CreateWithVoucher, CreateByContinuation, Begin, Decide, Cancel, Collect,
     Acknowledge, Abandon, RevokeUnclaimed, RevokeClaim

\* A Decision is left alone, or written by a Controller or by a standing that is heard
LEMMA DecisionsAreHeard ==
    ASSUME AdmissionAssumption, AdmissionInv, StandingInv, [Next]_vars, NEW e \in Enrollments
    PROVE  \/ decision'[e] = decision[e]
           \/ decision'[e].verdict # "none" /\ decision'[e].standing \notin silenced
<1> USE DEF AdmissionInv
<1>1. CASE UNCHANGED decision
  BY <1>1
<1>2. ASSUME NEW d \in Enrollments, NEW k, NEW b, NEW j, Propose(d, k, b, j)
      PROVE  \/ decision'[e] = decision[e]
             \/ decision'[e].verdict # "none" /\ decision'[e].standing \notin silenced
  <2>1. \/ decision' = decision
        \/ \E s \in StandingFor(k, j) : decision' = [decision EXCEPT
              ![d] = [verdict |-> "approve", standing |-> s.jti, rev |-> 1]]
    BY <1>2 DEF Propose
  <2>2. \A s \in StandingFor(k, j) : s.jti \notin silenced
    <3>1. \A s \in StandingFor(k, j) :
             s \in standing /\ withdrawn[s.by] < s.at
      BY DEF StandingFor, StandingRows
    <3>2. \A s \in standing : s.by \in Controllers /\ s.at \in Nat
      BY DEF TypeOK, Standing
    <3> SUFFICES ASSUME NEW s \in StandingFor(k, j), s.jti \in silenced
                 PROVE  FALSE
      OBVIOUS
    <3>3. PICK t \in standing : t.jti = s.jti /\ withdrawn[t.by] >= t.at
      BY DEF StandingInv
    <3>4. t = s
      BY <3>1, <3>3 DEF StandingInv
    <3>5. withdrawn[s.by] \in Nat /\ s.at \in Nat
      BY <3>1, <3>2 DEF TypeOK
    <3>6. QED
      BY <3>1, <3>3, <3>4, <3>5
  <2>3. QED
    BY <2>1, <2>2 DEF TypeOK
<1>3. ASSUME NEW c \in calls, Decide(c)
      PROVE  \/ decision'[e] = decision[e]
             \/ decision'[e].verdict # "none" /\ decision'[e].standing \notin silenced
  <2>1. /\ c.op \in {"approve", "reject"}
        /\ decision' = [decision EXCEPT
              ![c.e] = [verdict |-> c.op, standing |-> None, rev |-> proposal[c.e].rev]]
    BY <1>3 DEF Decide
  <2>2. None \notin silenced
    BY DEF TypeOK, AdmissionAssumption
  <2>3. QED
    BY <2>1, <2>2 DEF TypeOK
<1>4. QED
  BY <1>1, <1>2, <1>3 DEF Next, Create, Conclude, Tick, ExpireDue, RecordStanding,
     WithdrawController, CreateWithVoucher, CreateByContinuation, Begin, Cancel, Collect,
     Acknowledge, Abandon, RevokeUnclaimed, RevokeClaim, enrollmentVars, vars

\* No standing decides once its Controller was withdrawn, however it is reached
THEOREM WithdrawnStandingIsSilent == Spec => SilencedStandingDecidesNothing
<1> DEFINE Inv == AdmissionInv /\ StandingInv /\ UndecidedInv
           Heard == \A e \in Enrollments :
              decision[e].verdict = "none" => decision'[e].standing \notin silenced
<1>1. Init => Inv
  BY AdmissionAssumption, InitEstablishesInv DEF Init, StandingInv, UndecidedInv, NoDecision
<1>2. Inv /\ [Next]_vars => Inv'
  BY AdmissionAssumption, NextKeepsInv, NextKeepsStanding, DecisionsAreHeard
     DEF UndecidedInv
<1>3. Inv /\ [Next]_vars => [Heard]_vars
  <2> SUFFICES ASSUME Inv, [Next]_vars
               PROVE  Heard
    BY Zenon
  <2>1. None \notin silenced
    BY AdmissionAssumption DEF AdmissionInv, TypeOK, AdmissionAssumption
  <2>2. QED
    BY <2>1, AdmissionAssumption, DecisionsAreHeard DEF UndecidedInv
<1>4. QED
  BY <1>1, <1>2, <1>3, PTL DEF Spec, SilencedStandingDecidesNothing

\* The way back of a removed body is a voucher: what proposes itself was neither
\* rejected nor, so far as the stream tells, removed
THEOREM RemovedBodiesDoNotPropose == Spec => NoSelfReturn
<1> DEFINE Inv == AdmissionInv /\ StreamInv
<1>1. Init => Inv
  <2> SUFFICES ASSUME Init
               PROVE  Inv
    OBVIOUS
  <2>1. \A k \in Keys : EventsOf(k) = {}
    BY DEF Init, EventsOf
  <2>2. StreamInv
    BY <2>1 DEF Init, StreamInv, StreamOrdered, StreamBacked, StreamReplaysToClaims
  <2>3. QED
    BY <2>2, AdmissionAssumption, InitEstablishesInv
<1>2. Inv /\ [Next]_vars => Inv'
  BY AdmissionAssumption, NextKeepsInv, StepsImplementLifecycle
<1>3. Inv /\ [Next]_vars => [\A e \in Enrollments :
                             ProposesItself(e) => NotTurnedAway(proposal'[e].key)]_vars
  <2> SUFFICES ASSUME Inv, Next, NEW e \in Enrollments, ProposesItself(e)
               PROVE  NotTurnedAway(proposal'[e].key)
    BY Zenon
  <2> USE DEF AdmissionInv, ProposesItself
  <2>1. PICK k \in Keys, b \in Bases : CreateByContinuation(e, k, b) /\ proposal'[e].key = k
    <3>1. Create
      <4>1. ASSUME NEW d \in Enrollments, NEW to, proposal[d].state # "absent",
                   proposal' = [proposal EXCEPT ![d] = Moved(d, to)]
            PROVE  FALSE
        BY <4>1 DEF TypeOK
      <4>2. ~Sweep
        BY DEF Sweep, Due, OpenStates
      <4>3. proposal' # proposal
        OBVIOUS
      <4>4. ~Conclude
        BY <4>1, <4>3 DEF Conclude, Decide, Cancel, Collect, Acknowledge, Abandon,
           MayBecome, TypeOK, Call, enrollmentVars
      <4>5. \A d \in Enrollments : ~RevokeUnclaimed(d)
        BY <4>1 DEF RevokeUnclaimed, MayBecome
      <4>6. QED
        BY <4>2, <4>3, <4>4, <4>5 DEF Next, Tick, ExpireDue, RecordStanding,
           WithdrawController, Begin, RevokeClaim, enrollmentVars
    <3>2. PICK d \in Enrollments, k \in Keys, b \in Bases :
             \/ \E j \in Jtis : CreateWithVoucher(d, k, b, j)
             \/ CreateByContinuation(d, k, b)
      BY <3>1 DEF Create
    <3>3. PICK j \in Jtis \cup {None} :
             /\ Propose(d, k, b, j)
             /\ j = None => CreateByContinuation(d, k, b)
      BY <3>2, AdmissionAssumption
         DEF CreateWithVoucher, CreateByContinuation, AdmissionAssumption
    <3>4. d = e
      BY <3>3 DEF Propose, TypeOK
    <3>5. proposal'[e].key = k /\ proposal'[e].jti = j
      BY <3>3, <3>4 DEF Propose, TypeOK, NewProposal
    <3>6. QED
      BY <3>3, <3>4, <3>5
  <2>2. bound[k] = b /\ ~RequiresFreshPresence(b)
    BY <2>1 DEF CreateByContinuation
  <2>3. \A d \in Enrollments : proposal[d].key = k => proposal[d].base \in {b, None}
    BY <2>2 DEF IdentityInv, NoProposal
  <2>4. \A d \in Enrollments : proposal[d].key = k => proposal[d].state # "rejected"
    <3> SUFFICES ASSUME NEW d \in Enrollments, proposal[d].key = k,
                        proposal[d].state = "rejected"
                 PROVE  FALSE
      OBVIOUS
    <3>1. proposal[d].base = b
      BY <2>2 DEF IdentityInv
    <3>2. QED
      BY <2>2, <3>1 DEF RequiresFreshPresence
  <2>5. claim[k].state # "revoked"
    <3> SUFFICES ASSUME claim[k].state = "revoked"
                 PROVE  FALSE
      OBVIOUS
    <3>1. PICK d \in Enrollments :
             /\ d = claim[k].by
             /\ proposal[d].key = k
             /\ proposal[d].state \in {"grant_acknowledged", "claim_revoked"}
      BY DEF ClaimInv, ClaimRestsOnItsGrant
    <3>2. proposal[d].base = b
      BY <2>2, <3>1 DEF IdentityInv
    <3>3. d # None
      BY AdmissionAssumption DEF AdmissionAssumption
    <3>4. QED
      BY <2>2, <3>1, <3>2, <3>3 DEF RequiresFreshPresence
  <2>6. \A i \in EventsOf(k) :
           stream[i].type = "revoked" =>
              \E j \in EventsOf(k) : j > i /\ stream[j].type = "activated"
    <3> SUFFICES ASSUME NEW i \in EventsOf(k), stream[i].type = "revoked"
                 PROVE  \E j \in EventsOf(k) : j > i /\ stream[j].type = "activated"
      OBVIOUS
    <3>1. PICK j \in EventsOf(k) : \A l \in EventsOf(k) : l <= j
      BY DEF StreamInv, StreamOrdered
    <3>2. stream[j].type = "activated"
      <4>1. claim[k].state = "active"
        BY <2>5 DEF StreamInv, StreamReplaysToClaims, TypeOK, Claim
      <4>2. QED
        BY <3>1, <4>1 DEF StreamInv, StreamReplaysToClaims
    <3>3. i \in Nat /\ j \in Nat /\ i <= j /\ i # j
      BY <3>1, <3>2 DEF EventsOf, TypeOK
    <3>4. QED
      BY <3>2, <3>3
  <2>7. QED
    BY <2>1, <2>4, <2>6 DEF NotTurnedAway
<1>4. QED
  BY <1>1, <1>2, <1>3, PTL DEF Spec, NoSelfReturn

==============================================================================
