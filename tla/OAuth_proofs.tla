---------------------------- MODULE OAuth_proofs ----------------------------
(***************************************************************************)
(* Proofs about both sides of the token endpoint: OAuthTokens, for every   *)
(* set of requests, grants, users and clients and every number of          *)
(* signatures, and Sdk, for every set of tabs and calls in flight and      *)
(* every number of clients, authorizations, grants and refresh tokens.     *)
(*                                                                         *)
(* The two share no state; each theorem is about one of them.              *)
(***************************************************************************)
EXTENDS OAuthTokens, Sdk, SequenceTheorems, TLAPS

-----------------------------------------------------------------------------
(*                               OAuthTokens                               *)
-----------------------------------------------------------------------------

\* Everything that names a signature names one already handed out.
SigsAreOld ==
    /\ \A r \in refresh : r.sig < nextSig /\ r.chain < nextSig
    /\ \A m \in minted : m.sig < nextSig
    /\ \A p \in Procs : tok[p] < nextSig /\ chain[p] < nextSig
    /\ \A s \in spent : s < nextSig

\* One row per signature, and no signature names tokens of both kinds.
SigsAreUnique ==
    /\ \A r, s \in refresh : r.sig = s.sig => r = s
    /\ \A r \in refresh, m \in minted : r.sig # m.sig

\* The right to extend a chain is held once: by its active refresh token, or
\* by the one request that has rotated it away and not inserted the next.
ChainHeldOnce ==
    /\ \A r, s \in refresh : r.active /\ s.active /\ r.chain = s.chain => r = s
    /\ \A r \in refresh, p \in Procs : r.active => r.chain # chain[p]
    /\ \A p, q \in Procs : chain[p] # 0 /\ chain[p] = chain[q] => p = q

\* A request has a chain only between its rotation (or its code's first
\* token) and its end, and a code exchange presents no refresh token.
LocalsFit ==
    /\ \A p \in Procs : pc[p] = "refresh_insert" => chain[p] # 0
    /\ \A p \in Procs : pc[p] \notin MintSteps => chain[p] = 0
    /\ \A p \in Procs : pc[p] \in ExchangeSteps => tok[p] = 0

\* Who has won a refresh token has spent it, and has nothing from it yet.
WinnersHoldSpentTokens ==
    /\ \A r \in refresh : r.active => r.sig \notin spent
    /\ \A m \in minted : m.from # 0 => m.from \in spent
    /\ \A p \in Procs : pc[p] = "access_insert" /\ tok[p] # 0 =>
          /\ tok[p] \in spent
          /\ \A m \in minted : m.from # tok[p]
          /\ \A q \in Procs : pc[q] = "access_insert" /\ tok[q] = tok[p] => q = p
    /\ \A s \in spent : \A m \in minted : m.sig # s

IInv ==
    /\ TypeOK
    /\ SigsAreOld
    /\ SigsAreUnique
    /\ ChainHeldOnce
    /\ LocalsFit
    /\ WinnersHoldSpentTokens

-----------------------------------------------------------------------------
(* Type correctness.                                                       *)

Typed == TypeOK /\ LocalsFit

\* The initial state is well typed.
LEMMA InitTyped == Init => Typed
BY GrantAssumption DEF Typed, LocalsFit, Init, TypeOK, CodeStates, Steps, Sigs

\* A rotated-out row keeps every column but its active flag.
LEMMA RotatedRow ==
    ASSUME NEW A, NEW B, NEW C, NEW r \in [sig : A, gid : B, chain : C, active : BOOLEAN]
    PROVE  /\ [r EXCEPT !.active = FALSE] \in [sig : A, gid : B, chain : C, active : BOOLEAN]
           /\ [r EXCEPT !.active = FALSE].sig = r.sig
           /\ [r EXCEPT !.active = FALSE].gid = r.gid
           /\ [r EXCEPT !.active = FALSE].chain = r.chain
           /\ [r EXCEPT !.active = FALSE].active = FALSE
OBVIOUS

\* Every statement keeps the tables and the requests well typed.
LEMMA StepTyped == Typed /\ [Next]_vars => Typed'
<1> SUFFICES ASSUME Typed, [Next]_vars PROVE Typed'
  OBVIOUS
<1> USE GrantAssumption DEF Typed, LocalsFit, TypeOK, Sigs, CodeStates, Steps,
        IssuingSteps, RevokingSteps, AuthorizeSteps, ExchangeSteps, MintSteps, Start,
        StartIssuing, StartSweep, GoTo, End, tables, locals, history, DeleteAccessRows,
        DeleteRefreshRows, AccessWithout, RefreshWithout, CodesWithout
<1>1. ASSUME NEW p \in Procs, NEW g \in Grants, AuthorizeConsented(p, g) PROVE Typed'
  BY <1>1 DEF AuthorizeConsented
<1>2. ASSUME NEW p \in Procs, NEW g \in Grants, AuthorizeAllowed(p, g) PROVE Typed'
  BY <1>2 DEF AuthorizeAllowed
<1>3. ASSUME NEW p \in Procs, CreateAuthorizeCodeSession(p) PROVE Typed'
  BY <1>3 DEF CreateAuthorizeCodeSession
<1>4. ASSUME NEW p \in Procs, CreatePKCERequestSession(p) PROVE Typed'
  BY <1>4 DEF CreatePKCERequestSession
<1>5. ASSUME NEW p \in Procs, NEW g \in Grants, ExchangeCode(p, g) PROVE Typed'
  BY <1>5 DEF ExchangeCode
<1>6. ASSUME NEW p \in Procs, GetPKCERequestSession(p) PROVE Typed'
  BY <1>6 DEF GetPKCERequestSession
<1>7. ASSUME NEW p \in Procs, DeletePKCERequestSession(p) PROVE Typed'
  BY <1>7 DEF DeletePKCERequestSession
<1>8. ASSUME NEW p \in Procs, GetAuthorizeCodeAgain(p) PROVE Typed'
  BY <1>8 DEF GetAuthorizeCodeAgain
<1>9. ASSUME NEW p \in Procs, InvalidateAuthorizeCodeSession(p) PROVE Typed'
  BY <1>9 DEF InvalidateAuthorizeCodeSession
<1>10. ASSUME NEW p \in Procs, NEW r \in refresh, ExchangeRefreshToken(p, r) PROVE Typed'
  BY <1>10 DEF ExchangeRefreshToken
<1>11. ASSUME NEW p \in Procs, RotateRefreshToken(p) PROVE Typed'
  <2>1. CASE \E r \in refresh : r.sig = tok[p] /\ r.gid \in scope[p] /\ r.active
    <3>1. PICK r \in refresh :
            /\ refresh' = (refresh \ {r}) \cup {[r EXCEPT !.active = FALSE]}
            /\ spent' = spent \cup {r.sig}
            /\ pc' = [pc EXCEPT ![p] = "access_insert"]
            /\ chain' = [chain EXCEPT ![p] = r.chain]
            /\ UNCHANGED <<scope, tok, quiet>>
      BY <1>11, <2>1 DEF RotateRefreshToken
    <3>2. [r EXCEPT !.active = FALSE] \in [sig : Sigs, gid : Grants, chain : Sigs, active : BOOLEAN]
      BY RotatedRow
    <3>3. r.sig \in Sigs /\ r.chain \in Sigs
      OBVIOUS
    <3>4. QED
      BY <1>11, <3>1, <3>2, <3>3 DEF RotateRefreshToken
  <2>2. CASE ~\E r \in refresh : r.sig = tok[p] /\ r.gid \in scope[p] /\ r.active
    BY <1>11, <2>2 DEF RotateRefreshToken
  <2>3. QED
    BY <2>1, <2>2
<1>12. ASSUME NEW p \in Procs, CreateAccessTokenSession(p) PROVE Typed'
  BY <1>12 DEF CreateAccessTokenSession
<1>13. ASSUME NEW p \in Procs, CreateRefreshTokenSession(p) PROVE Typed'
  <2>1. PICK g \in scope[p] : refresh' = refresh \cup
            {[sig |-> nextSig, gid |-> g, chain |-> chain[p], active |-> TRUE]}
    BY <1>13 DEF CreateRefreshTokenSession
  <2>2. [sig |-> nextSig, gid |-> g, chain |-> chain[p], active |-> TRUE]
            \in [sig : Sigs, gid : Grants, chain : Sigs, active : BOOLEAN]
    BY <1>13 DEF CreateRefreshTokenSession
  <2>3. nextSig' \in 1..(MaxSig + 1)
    BY <1>13 DEF CreateRefreshTokenSession
  <2>4. QED
    BY <1>13, <2>1, <2>2, <2>3 DEF CreateRefreshTokenSession
<1>14. ASSUME NEW p \in Procs, ReplayAccess(p) PROVE Typed'
  BY <1>14 DEF ReplayAccess
<1>15. ASSUME NEW p \in Procs, ReplayRefresh(p) PROVE Typed'
  BY <1>15 DEF ReplayRefresh
<1>16. ASSUME NEW p \in Procs, ReuseToken(p) PROVE Typed'
  BY <1>16 DEF ReuseToken
<1>17. ASSUME NEW p \in Procs, ReuseRefresh(p) PROVE Typed'
  BY <1>17 DEF ReuseRefresh
<1>18. ASSUME NEW p \in Procs, ReuseAccess(p) PROVE Typed'
  BY <1>18 DEF ReuseAccess
<1>19. ASSUME NEW p \in Procs, NEW g \in Grants, RevokeToken(p, g) PROVE Typed'
  BY <1>19 DEF RevokeToken
<1>20. ASSUME NEW p \in Procs, RevokeRefresh(p) PROVE Typed'
  BY <1>20 DEF RevokeRefresh
<1>21. ASSUME NEW p \in Procs, RevokeAccess(p) PROVE Typed'
  BY <1>21 DEF RevokeAccess
<1>22. ASSUME NEW p \in Procs, NEW s \in Subjects, RevokeForSubject(p, s) PROVE Typed'
  BY <1>22 DEF RevokeForSubject
<1>23. ASSUME NEW p \in Procs, NEW s \in Subjects, NEW c \in Clients, RevokeConsent(p, s, c)
       PROVE  Typed'
  BY <1>23 DEF RevokeConsent
<1>24. ASSUME NEW p \in Procs, SweepCodes(p) PROVE Typed'
  BY <1>24 DEF SweepCodes
<1>25. ASSUME NEW p \in Procs, SweepAccess(p) PROVE Typed'
  BY <1>25 DEF SweepAccess
<1>26. ASSUME NEW p \in Procs, SweepRefresh(p) PROVE Typed'
  BY <1>26 DEF SweepRefresh
<1>27. ASSUME NEW p \in Procs, SweepPKCE(p) PROVE Typed'
  BY <1>27 DEF SweepPKCE
<1>28. ASSUME NEW p \in Procs, Abort(p) PROVE Typed'
  BY <1>28 DEF Abort
<1>29. CASE UNCHANGED vars
  BY <1>29 DEF vars
<1>30. QED
  BY <1>1, <1>2, <1>3, <1>4, <1>5, <1>6, <1>7, <1>8, <1>9, <1>10, <1>11, <1>12, <1>13,
     <1>14, <1>15, <1>16, <1>17, <1>18, <1>19, <1>20, <1>21, <1>22, <1>23, <1>24, <1>25,
     <1>26, <1>27, <1>28, <1>29 DEF Next, Authorize, Exchange, Revoke
\* The grant tables and the requests in flight stay well typed, whatever the
\* interleaving.
THEOREM TypeCorrect == Spec => []TypeOK
<1>1. Typed => TypeOK
  BY DEF Typed
<1>2. QED
  BY InitTyped, StepTyped, <1>1, PTL DEF Spec

-----------------------------------------------------------------------------
(* The rotation chains.  Three actions touch them: winning a rotation and  *)
(* inserting either half of a pair.  Every other step only takes tokens    *)
(* away and starts or ends requests.                                       *)

OnlyTakesAway ==
    /\ UNCHANGED <<nextSig, minted, spent>>
    /\ refresh' \subseteq refresh
    /\ \A q \in Procs : chain'[q] \in {0, chain[q]}
    /\ \A q \in Procs : tok'[q] < nextSig
    /\ \A q \in Procs : pc'[q] = "access_insert" =>
          tok'[q] = 0 \/ (pc[q] = "access_insert" /\ tok'[q] = tok[q])

\* Every step but a rotation and the two inserts only takes away: rows,
\* chains held, and nothing is minted or spent.
LEMMA OtherStepsOnlyTakeAway ==
    ASSUME Typed, SigsAreOld, [Next]_vars
    PROVE  \/ OnlyTakesAway
           \/ \E p \in Procs : \/ RotateRefreshToken(p)
                               \/ CreateAccessTokenSession(p)
                               \/ CreateRefreshTokenSession(p)
<1> USE DEF Typed, TypeOK, LocalsFit, SigsAreOld, OnlyTakesAway, Sigs, ExchangeSteps,
        Start, StartIssuing, StartSweep, GoTo, End, tables, locals, history,
        DeleteAccessRows, DeleteRefreshRows, AccessWithout, RefreshWithout
<1>1. ASSUME NEW p \in Procs, NEW g \in Grants, AuthorizeConsented(p, g) PROVE OnlyTakesAway
  BY <1>1 DEF AuthorizeConsented
<1>2. ASSUME NEW p \in Procs, NEW g \in Grants, AuthorizeAllowed(p, g) PROVE OnlyTakesAway
  BY <1>2 DEF AuthorizeAllowed
<1>3. ASSUME NEW p \in Procs, CreateAuthorizeCodeSession(p) PROVE OnlyTakesAway
  BY <1>3 DEF CreateAuthorizeCodeSession
<1>4. ASSUME NEW p \in Procs, CreatePKCERequestSession(p) PROVE OnlyTakesAway
  BY <1>4 DEF CreatePKCERequestSession
<1>5. ASSUME NEW p \in Procs, NEW g \in Grants, ExchangeCode(p, g) PROVE OnlyTakesAway
  BY <1>5 DEF ExchangeCode
<1>6. ASSUME NEW p \in Procs, GetPKCERequestSession(p) PROVE OnlyTakesAway
  BY <1>6 DEF GetPKCERequestSession
<1>7. ASSUME NEW p \in Procs, DeletePKCERequestSession(p) PROVE OnlyTakesAway
  BY <1>7 DEF DeletePKCERequestSession
<1>8. ASSUME NEW p \in Procs, GetAuthorizeCodeAgain(p) PROVE OnlyTakesAway
  BY <1>8 DEF GetAuthorizeCodeAgain
<1>9. ASSUME NEW p \in Procs, InvalidateAuthorizeCodeSession(p) PROVE OnlyTakesAway
  BY <1>9 DEF InvalidateAuthorizeCodeSession
<1>10. ASSUME NEW p \in Procs, NEW r \in refresh, ExchangeRefreshToken(p, r)
       PROVE  OnlyTakesAway
  BY <1>10 DEF ExchangeRefreshToken
<1>11. ASSUME NEW p \in Procs, ReplayAccess(p) PROVE OnlyTakesAway
  BY <1>11 DEF ReplayAccess
<1>12. ASSUME NEW p \in Procs, ReplayRefresh(p) PROVE OnlyTakesAway
  BY <1>12 DEF ReplayRefresh
<1>13. ASSUME NEW p \in Procs, ReuseToken(p) PROVE OnlyTakesAway
  BY <1>13 DEF ReuseToken
<1>14. ASSUME NEW p \in Procs, ReuseRefresh(p) PROVE OnlyTakesAway
  BY <1>14 DEF ReuseRefresh
<1>15. ASSUME NEW p \in Procs, ReuseAccess(p) PROVE OnlyTakesAway
  BY <1>15 DEF ReuseAccess
<1>16. ASSUME NEW p \in Procs, NEW g \in Grants, RevokeToken(p, g) PROVE OnlyTakesAway
  BY <1>16 DEF RevokeToken
<1>17. ASSUME NEW p \in Procs, RevokeRefresh(p) PROVE OnlyTakesAway
  BY <1>17 DEF RevokeRefresh
<1>18. ASSUME NEW p \in Procs, RevokeAccess(p) PROVE OnlyTakesAway
  BY <1>18 DEF RevokeAccess
<1>19. ASSUME NEW p \in Procs, NEW s \in Subjects, RevokeForSubject(p, s) PROVE OnlyTakesAway
  BY <1>19 DEF RevokeForSubject
<1>20. ASSUME NEW p \in Procs, NEW s \in Subjects, NEW c \in Clients, RevokeConsent(p, s, c)
       PROVE  OnlyTakesAway
  BY <1>20 DEF RevokeConsent
<1>21. ASSUME NEW p \in Procs, SweepCodes(p) PROVE OnlyTakesAway
  BY <1>21 DEF SweepCodes
<1>22. ASSUME NEW p \in Procs, SweepAccess(p) PROVE OnlyTakesAway
  BY <1>22 DEF SweepAccess
<1>23. ASSUME NEW p \in Procs, SweepRefresh(p) PROVE OnlyTakesAway
  BY <1>23 DEF SweepRefresh
<1>24. ASSUME NEW p \in Procs, SweepPKCE(p) PROVE OnlyTakesAway
  BY <1>24 DEF SweepPKCE
<1>25. ASSUME NEW p \in Procs, Abort(p) PROVE OnlyTakesAway
  BY <1>25 DEF Abort
<1>26. CASE UNCHANGED vars
  BY <1>26 DEF vars
<1>27. QED
  BY <1>1, <1>2, <1>3, <1>4, <1>5, <1>6, <1>7, <1>8, <1>9, <1>10, <1>11, <1>12, <1>13,
     <1>14, <1>15, <1>16, <1>17, <1>18, <1>19, <1>20, <1>21, <1>22, <1>23, <1>24, <1>25,
     <1>26 DEF Next, Authorize, Exchange, Revoke

\* Taking away keeps the inductive invariant.
LEMMA TakingAwayKeepsInv ==
    ASSUME IInv, Typed', OnlyTakesAway
    PROVE  IInv'
<1> USE DEF IInv, Typed, TypeOK, OnlyTakesAway, Sigs
<1>1. SigsAreOld'
  BY DEF SigsAreOld
<1>2. SigsAreUnique'
  BY DEF SigsAreUnique
<1>3. ChainHeldOnce'
  BY DEF ChainHeldOnce
<1>4. WinnersHoldSpentTokens'
  BY DEF WinnersHoldSpentTokens
<1>5. QED
  BY <1>1, <1>2, <1>3, <1>4

\* A won rotation hands the chain from the row to the request.
LEMMA RotateKeepsInv ==
    ASSUME IInv, Typed', NEW p \in Procs, RotateRefreshToken(p)
    PROVE  IInv'
<1> USE DEF IInv, Typed, TypeOK
<1>1. CASE \E r \in refresh : r.sig = tok[p] /\ r.gid \in scope[p] /\ r.active
  <2>1. PICK r \in refresh :
          /\ r.sig = tok[p] /\ r.gid \in scope[p] /\ r.active
          /\ refresh' = (refresh \ {r}) \cup {[r EXCEPT !.active = FALSE]}
          /\ spent' = spent \cup {r.sig}
          /\ pc' = [pc EXCEPT ![p] = "access_insert"]
          /\ chain' = [chain EXCEPT ![p] = r.chain]
          /\ UNCHANGED <<scope, tok, quiet>>
    BY <1>1 DEF RotateRefreshToken
  <2> DEFINE n == [r EXCEPT !.active = FALSE]
  <2>2. n.sig = r.sig /\ n.chain = r.chain /\ n.active = FALSE
    BY RotatedRow
  <2> HIDE DEF n
  <2>3. refresh' = (refresh \ {r}) \cup {n}
    BY <2>1 DEF n
  <2>4. UNCHANGED <<minted, nextSig>>
    BY DEF RotateRefreshToken
  <2>5. r.sig \in Sigs /\ r.chain \in Sigs
    OBVIOUS
  <2>6. SigsAreOld'
    BY <2>1, <2>2, <2>3, <2>4, <2>5 DEF SigsAreOld, Sigs
  <2>7. SigsAreUnique'
    BY <2>2, <2>3, <2>4 DEF SigsAreUnique
  <2>8. ChainHeldOnce'
    BY <2>1, <2>2, <2>3 DEF ChainHeldOnce
  <2>9. WinnersHoldSpentTokens'
    <3>1. \A q \in refresh' : q.active => q.sig \notin spent'
      BY <2>1, <2>2, <2>3 DEF WinnersHoldSpentTokens, SigsAreUnique
    <3>2. r.sig \notin spent /\ \A m \in minted : m.from # r.sig
      BY <2>1, <2>5, GrantAssumption DEF WinnersHoldSpentTokens, Sigs
    <3>3. \A q \in Procs : pc[q] = "access_insert" /\ tok[q] # 0 => tok[q] # r.sig
      BY <3>2 DEF WinnersHoldSpentTokens
    <3>4. \A q \in Procs : pc'[q] = "access_insert" <=> (q = p \/ pc[q] = "access_insert")
      BY <2>1
    <3>5. \A m \in minted' : m.from # 0 => m.from \in spent'
      BY <2>1, <2>4 DEF WinnersHoldSpentTokens
    <3>6. \A s \in spent' : \A m \in minted' : m.sig # s
      BY <2>1, <2>4 DEF WinnersHoldSpentTokens, SigsAreUnique
    <3>7. ASSUME NEW q \in Procs, pc'[q] = "access_insert", tok'[q] # 0
          PROVE  /\ tok'[q] \in spent'
                 /\ \A m \in minted' : m.from # tok'[q]
                 /\ \A o \in Procs : pc'[o] = "access_insert" /\ tok'[o] = tok'[q] => o = q
      BY <2>1, <2>4, <3>2, <3>3, <3>4, <3>7 DEF WinnersHoldSpentTokens
    <3>8. QED
      BY <3>1, <3>5, <3>6, <3>7 DEF WinnersHoldSpentTokens
  <2>10. QED
    BY <2>6, <2>7, <2>8, <2>9
<1>2. CASE ~\E r \in refresh : r.sig = tok[p] /\ r.gid \in scope[p] /\ r.active
  <2>1. End(p) /\ UNCHANGED <<refresh, spent, minted, nextSig>>
    BY <1>2 DEF RotateRefreshToken
  <2>2. OnlyTakesAway
    BY <2>1, GrantAssumption DEF OnlyTakesAway, End, SigsAreOld, Sigs
  <2>3. QED
    BY <2>2, TakingAwayKeepsInv
<1>3. QED
  BY <1>1, <1>2

\* A minted access token has a fresh signature and uses up the win.
LEMMA AccessKeepsInv ==
    ASSUME IInv, Typed', NEW p \in Procs, CreateAccessTokenSession(p)
    PROVE  IInv'
<1> USE DEF IInv, Typed, TypeOK
<1>1. PICK g \in scope[p] :
        /\ minted' = minted \cup {[sig |-> nextSig, gid |-> g, from |-> tok[p]]}
        /\ IF g \in Offline
           THEN /\ pc' = [pc EXCEPT ![p] = "refresh_insert"]
                /\ chain' = [chain EXCEPT ![p] = IF @ = 0 THEN nextSig ELSE @]
                /\ UNCHANGED <<scope, tok, quiet>>
           ELSE End(p)
  BY DEF CreateAccessTokenSession
<1>2. nextSig' = nextSig + 1 /\ UNCHANGED <<refresh, spent>> /\ pc[p] = "access_insert"
  BY DEF CreateAccessTokenSession
<1>3. \A q \in Procs : q # p => chain'[q] = chain[q] /\ pc'[q] = pc[q] /\ tok'[q] = tok[q]
  BY <1>1 DEF End
<1>4. /\ chain'[p] \in {0, chain[p], nextSig}
      /\ chain'[p] = nextSig \/ chain'[p] = chain[p] \/ chain'[p] = 0
      /\ tok'[p] \in {0, tok[p]}
      /\ pc'[p] # "access_insert"
  BY <1>1 DEF End
<1>5. nextSig \in Nat \ {0}
  BY GrantAssumption
<1>6. SigsAreOld'
  BY <1>1, <1>2, <1>3, <1>4, <1>5, GrantAssumption DEF SigsAreOld, Sigs
<1>7. SigsAreUnique'
  BY <1>1, <1>2, <1>5, GrantAssumption DEF SigsAreUnique, SigsAreOld, Sigs
<1>8. ChainHeldOnce'
  <2>1. \A r \in refresh' : r.chain # nextSig /\ r.chain # 0
    BY <1>2, <1>5, GrantAssumption DEF SigsAreOld, Sigs
  <2>2. \A q \in Procs : chain[q] # nextSig
    BY <1>5, GrantAssumption DEF SigsAreOld, Sigs
  <2>3. QED
    BY <1>2, <1>3, <1>4, <2>1, <2>2 DEF ChainHeldOnce
<1>9. WinnersHoldSpentTokens'
  <2> DEFINE new == [sig |-> nextSig, gid |-> g, from |-> tok[p]]
  <2>1. new.sig = nextSig /\ new.from = tok[p]
    OBVIOUS
  <2>2. minted' = minted \cup {new}
    BY <1>1
  <2> HIDE DEF new
  <2>3. \A s \in spent' : s # nextSig
    BY <1>2, <1>5, GrantAssumption DEF SigsAreOld, Sigs
  <2>4. \A q \in Procs : pc'[q] = "access_insert" => q # p /\ pc[q] = "access_insert" /\ tok'[q] = tok[q]
    BY <1>3, <1>4
  <2>5. QED
    BY <1>2, <2>1, <2>2, <2>3, <2>4 DEF WinnersHoldSpentTokens
<1>10. QED
  BY <1>6, <1>7, <1>8, <1>9

\* The inserted refresh token takes the chain over from its request.
LEMMA RefreshKeepsInv ==
    ASSUME IInv, Typed', NEW p \in Procs, CreateRefreshTokenSession(p)
    PROVE  IInv'
<1> USE DEF IInv, Typed, TypeOK
<1>1. PICK g \in scope[p] : refresh' = refresh \cup
          {[sig |-> nextSig, gid |-> g, chain |-> chain[p], active |-> TRUE]}
  BY DEF CreateRefreshTokenSession
<1> DEFINE new == [sig |-> nextSig, gid |-> g, chain |-> chain[p], active |-> TRUE]
<1>2. new.sig = nextSig /\ new.chain = chain[p] /\ new.active = TRUE
  OBVIOUS
<1>3. refresh' = refresh \cup {new}
  BY <1>1
<1> HIDE DEF new
<1>4. nextSig' = nextSig + 1 /\ UNCHANGED <<minted, spent>> /\ pc[p] = "refresh_insert"
  BY DEF CreateRefreshTokenSession
<1>5. \A q \in Procs : q # p => chain'[q] = chain[q] /\ pc'[q] = pc[q] /\ tok'[q] = tok[q]
  BY DEF CreateRefreshTokenSession, End
<1>6. chain'[p] = 0 /\ tok'[p] = 0 /\ pc'[p] = "idle"
  BY DEF CreateRefreshTokenSession, End
<1>7. nextSig \in Nat \ {0} /\ chain[p] # 0
  BY <1>4, GrantAssumption DEF LocalsFit
<1>8. SigsAreOld'
  BY <1>2, <1>3, <1>4, <1>5, <1>6, <1>7, GrantAssumption DEF SigsAreOld, Sigs
<1>9. SigsAreUnique'
  BY <1>2, <1>3, <1>4, <1>7, GrantAssumption DEF SigsAreUnique, SigsAreOld, Sigs
<1>10. ChainHeldOnce'
  BY <1>2, <1>3, <1>5, <1>6, <1>7, GrantAssumption DEF ChainHeldOnce, Sigs
<1>11. WinnersHoldSpentTokens'
  <2>1. \A s \in spent : s # nextSig
    BY <1>7, GrantAssumption DEF SigsAreOld, Sigs
  <2>2. QED
    BY <1>2, <1>3, <1>4, <1>5, <1>6, <2>1 DEF WinnersHoldSpentTokens
<1>12. QED
  BY <1>8, <1>9, <1>10, <1>11

\* Whatever the requests and however their statements interleave, IInv holds.
THEOREM Inductive == Spec => []IInv
<1>1. Init => IInv
  BY InitTyped DEF Init, IInv, Typed, SigsAreOld, SigsAreUnique, ChainHeldOnce,
     WinnersHoldSpentTokens
<1>2. IInv /\ [Next]_vars => IInv'
  <2> SUFFICES ASSUME IInv, [Next]_vars PROVE IInv'
    OBVIOUS
  <2>1. Typed /\ Typed'
    BY StepTyped DEF IInv, Typed
  <2>2. QED
    BY <2>1, OtherStepsOnlyTakeAway, TakingAwayKeepsInv, RotateKeepsInv,
       AccessKeepsInv, RefreshKeepsInv DEF IInv
<1>3. QED
  BY <1>1, <1>2, PTL DEF Spec

\* OneActivePerChain, for every instance: no interleaving of exchanges,
\* rotations and revocations leaves a chain with two working refresh tokens.
THEOREM ChainsAreLinear == Spec => []OneActivePerChain
<1>1. IInv => OneActivePerChain
  BY DEF IInv, ChainHeldOnce, OneActivePerChain
<1>2. QED
  BY Inductive, <1>1, PTL

-----------------------------------------------------------------------------
(* The refinement: a refresh token is a one-time credential.               *)

\* A lost rotation changes no row.
LEMMA LostRotationTakesAway ==
    ASSUME IInv, NEW p \in Procs, RotateRefreshToken(p),
           ~\E r \in refresh : r.sig = tok[p] /\ r.gid \in scope[p] /\ r.active
    PROVE  OnlyTakesAway
<1>1. End(p) /\ UNCHANGED <<refresh, spent, minted, nextSig>>
  BY DEF RotateRefreshToken
<1>2. QED
  BY <1>1, GrantAssumption DEF IInv, TypeOK, OnlyTakesAway, End, SigsAreOld, Sigs

\* Taking away is a revocation, or nothing, in OneTimeCredential.
LEMMA TakingAwayRefines ==
    ASSUME IInv, OnlyTakesAway
    PROVE  RefreshTokens!CredNext
<1>1. LiveSigs' \subseteq LiveSigs
  BY DEF OnlyTakesAway, LiveSigs
<1>2. IssuedSigs' = IssuedSigs /\ MintedFrom' = MintedFrom /\ spent' = spent
  BY DEF OnlyTakesAway, IssuedSigs, MintedFrom
<1>3. LiveSigs \ LiveSigs' \in SUBSET Sigs
  BY DEF LiveSigs
<1>4. RefreshTokens!RevokeSome(LiveSigs \ LiveSigs')
  BY <1>1, <1>2 DEF RefreshTokens!RevokeSome
<1>5. QED
  BY <1>3, <1>4 DEF RefreshTokens!CredNext

\* A won rotation spends a live credential.
LEMMA RotateRefines ==
    ASSUME IInv, NEW p \in Procs, RotateRefreshToken(p)
    PROVE  RefreshTokens!CredNext
<1>1. CASE \E r \in refresh : r.sig = tok[p] /\ r.gid \in scope[p] /\ r.active
  <2>1. PICK r \in refresh :
          /\ r.active
          /\ refresh' = (refresh \ {r}) \cup {[r EXCEPT !.active = FALSE]}
          /\ spent' = spent \cup {r.sig}
    BY <1>1 DEF RotateRefreshToken
  <2> DEFINE n == [r EXCEPT !.active = FALSE]
  <2>2. r \in [sig : Sigs, gid : Grants, chain : Sigs, active : BOOLEAN]
    BY DEF IInv, TypeOK
  <2>3. n.sig = r.sig /\ n.active = FALSE /\ r.sig \in Sigs
    BY <2>2, RotatedRow
  <2> HIDE DEF n
  <2>4. refresh' = (refresh \ {r}) \cup {n}
    BY <2>1 DEF n
  <2>5. LiveSigs' = LiveSigs \ {r.sig} /\ r.sig \in LiveSigs
    BY <2>1, <2>3, <2>4 DEF LiveSigs, IInv, SigsAreUnique
  <2>6. IssuedSigs' = IssuedSigs /\ MintedFrom' = MintedFrom
    BY DEF RotateRefreshToken, IssuedSigs, MintedFrom
  <2>7. RefreshTokens!Spend(r.sig)
    BY <2>1, <2>5, <2>6 DEF RefreshTokens!Spend
  <2>8. QED
    BY <2>3, <2>7 DEF RefreshTokens!CredNext
<1>2. CASE ~\E r \in refresh : r.sig = tok[p] /\ r.gid \in scope[p] /\ r.active
  BY <1>2, LostRotationTakesAway, TakingAwayRefines
<1>3. QED
  BY <1>1, <1>2

\* A minted access token is the yield of the spent credential, or of a code.
LEMMA AccessRefines ==
    ASSUME IInv, NEW p \in Procs, CreateAccessTokenSession(p)
    PROVE  RefreshTokens!CredNext \/ UNCHANGED RefreshTokens!credVars
<1>1. PICK g \in scope[p] :
        minted' = minted \cup {[sig |-> nextSig, gid |-> g, from |-> tok[p]]}
  BY DEF CreateAccessTokenSession
<1> DEFINE new == [sig |-> nextSig, gid |-> g, from |-> tok[p]]
<1>2. minted' = minted \cup {new} /\ new.sig = nextSig /\ new.from = tok[p]
  BY <1>1
<1> HIDE DEF new
<1>3. /\ nextSig' = nextSig + 1 /\ UNCHANGED <<refresh, spent>> /\ pc[p] = "access_insert"
      /\ nextSig \in Sigs /\ tok[p] \in Sigs \cup {0}
  BY GrantAssumption DEF CreateAccessTokenSession, IInv, TypeOK, Sigs
<1>4. IssuedSigs' = IssuedSigs
  BY <1>2, <1>3, GrantAssumption DEF IssuedSigs, Sigs
<1>5. LiveSigs' = LiveSigs
  BY <1>3 DEF LiveSigs
<1>6. CASE tok[p] = 0
  <2>1. \A s \in Sigs : tok[p] # s
    BY <1>6 DEF Sigs
  <2>2. MintedFrom' = MintedFrom
    BY <1>2, <2>1 DEF MintedFrom
  <2>3. QED
    BY <1>3, <1>4, <1>5, <2>2 DEF RefreshTokens!credVars
<1>7. CASE tok[p] # 0
  <2>1. tok[p] \in Sigs /\ tok[p] \in spent /\ \A m \in minted : m.from # tok[p]
    BY <1>3, <1>7 DEF IInv, WinnersHoldSpentTokens
  <2>2. MintedFrom[tok[p]] = {}
    BY <2>1 DEF MintedFrom
  <2>3. \A s \in Sigs : MintedFrom'[s] = IF s = tok[p] THEN {nextSig} ELSE MintedFrom[s]
    BY <1>2, <1>3, <2>1 DEF MintedFrom
  <2>4. MintedFrom' = [MintedFrom EXCEPT ![tok[p]] = {nextSig}]
    BY <2>3 DEF MintedFrom
  <2>5. RefreshTokens!Yield(tok[p], nextSig)
    BY <1>3, <1>4, <1>5, <2>1, <2>2, <2>4 DEF RefreshTokens!Yield
  <2>6. QED
    BY <1>3, <2>1, <2>5 DEF RefreshTokens!CredNext
<1>8. QED
  BY <1>6, <1>7

\* An inserted refresh token is a freshly issued credential.
LEMMA RefreshRefines ==
    ASSUME IInv, NEW p \in Procs, CreateRefreshTokenSession(p)
    PROVE  RefreshTokens!CredNext
<1>1. PICK g \in scope[p] : refresh' = refresh \cup
          {[sig |-> nextSig, gid |-> g, chain |-> chain[p], active |-> TRUE]}
  BY DEF CreateRefreshTokenSession
<1> DEFINE new == [sig |-> nextSig, gid |-> g, chain |-> chain[p], active |-> TRUE]
<1>2. refresh' = refresh \cup {new} /\ new.sig = nextSig /\ new.active = TRUE
  BY <1>1
<1> HIDE DEF new
<1>3. nextSig' = nextSig + 1 /\ UNCHANGED <<minted, spent>> /\ nextSig \in Sigs
  BY GrantAssumption DEF CreateRefreshTokenSession, IInv, TypeOK, Sigs
<1>4. LiveSigs' = LiveSigs \cup {nextSig}
  BY <1>2, <1>3 DEF LiveSigs
<1>5. \A m \in minted : m.sig \in Sigs /\ m.sig < nextSig
  BY DEF IInv, TypeOK, SigsAreOld
<1>6. IssuedSigs' = IssuedSigs \cup {nextSig} /\ nextSig \notin IssuedSigs
  BY <1>3, <1>5, GrantAssumption DEF IssuedSigs, Sigs
<1>7. MintedFrom' = MintedFrom
  BY <1>3 DEF MintedFrom
<1>8. RefreshTokens!Issue(nextSig)
  BY <1>3, <1>4, <1>6, <1>7 DEF RefreshTokens!Issue
<1>9. QED
  BY <1>3, <1>8 DEF RefreshTokens!CredNext

\* The token endpoint and every revocation path implement the one-time
\* credential: two concurrent redemptions of one refresh token never both
\* mint (TOK-08), for any number of requests.
THEOREM RefreshTokensRefine == Spec => RefreshTokensAreOneTime
<1>1. Init => RefreshTokens!CredInit
  BY GrantAssumption DEF Init, RefreshTokens!CredInit, IssuedSigs, LiveSigs, MintedFrom, Sigs
<1>2. IInv /\ [Next]_vars => [RefreshTokens!CredNext]_(RefreshTokens!credVars)
  <2> SUFFICES ASSUME IInv, [Next]_vars
               PROVE  RefreshTokens!CredNext \/ UNCHANGED RefreshTokens!credVars
    OBVIOUS
  <2>1. Typed /\ SigsAreOld
    BY DEF IInv, Typed
  <2>2. QED
    BY <2>1, OtherStepsOnlyTakeAway, TakingAwayRefines, RotateRefines, AccessRefines,
       RefreshRefines
<1>3. QED
  BY <1>1, <1>2, Inductive, PTL DEF Spec, RefreshTokensAreOneTime, RefreshTokens!CredSpec

-----------------------------------------------------------------------------
(* Dead grants.                                                            *)

\* No step makes a dead grant issue anything or stop being dead.
LEMMA DeadStep ==
    ASSUME Typed, [Next]_vars, NEW d \in Grants, Dead(d)
    PROVE  IssuesNothing(d)
<1> USE DEF IssuesNothing, Typed, TypeOK, Dead, Issuing, IssuingSteps, AuthorizeSteps,
        ExchangeSteps, MintSteps, Start, StartIssuing, StartSweep, GoTo, End, tables,
        locals, history, DeleteAccessRows, DeleteRefreshRows, AccessWithout,
        RefreshWithout, CodesWithout
<1>1. ASSUME NEW p \in Procs, NEW g \in Grants, AuthorizeConsented(p, g) PROVE IssuesNothing(d)
  BY <1>1 DEF AuthorizeConsented
<1>2. ASSUME NEW p \in Procs, NEW g \in Grants, AuthorizeAllowed(p, g) PROVE IssuesNothing(d)
  BY <1>2 DEF AuthorizeAllowed
<1>3. ASSUME NEW p \in Procs, CreateAuthorizeCodeSession(p) PROVE IssuesNothing(d)
  BY <1>3 DEF CreateAuthorizeCodeSession
<1>4. ASSUME NEW p \in Procs, CreatePKCERequestSession(p) PROVE IssuesNothing(d)
  BY <1>4 DEF CreatePKCERequestSession
<1>5. ASSUME NEW p \in Procs, NEW g \in Grants, ExchangeCode(p, g) PROVE IssuesNothing(d)
  BY <1>5 DEF ExchangeCode
<1>6. ASSUME NEW p \in Procs, GetPKCERequestSession(p) PROVE IssuesNothing(d)
  BY <1>6 DEF GetPKCERequestSession
<1>7. ASSUME NEW p \in Procs, DeletePKCERequestSession(p) PROVE IssuesNothing(d)
  BY <1>7 DEF DeletePKCERequestSession
<1>8. ASSUME NEW p \in Procs, GetAuthorizeCodeAgain(p) PROVE IssuesNothing(d)
  BY <1>8 DEF GetAuthorizeCodeAgain
<1>9. ASSUME NEW p \in Procs, InvalidateAuthorizeCodeSession(p) PROVE IssuesNothing(d)
  BY <1>9 DEF InvalidateAuthorizeCodeSession
<1>10. ASSUME NEW p \in Procs, NEW r \in refresh, ExchangeRefreshToken(p, r)
       PROVE  IssuesNothing(d)
  BY <1>10 DEF ExchangeRefreshToken
<1>11. ASSUME NEW p \in Procs, RotateRefreshToken(p) PROVE IssuesNothing(d)
  BY <1>11 DEF RotateRefreshToken
<1>12. ASSUME NEW p \in Procs, CreateAccessTokenSession(p) PROVE IssuesNothing(d)
  BY <1>12 DEF CreateAccessTokenSession
<1>13. ASSUME NEW p \in Procs, CreateRefreshTokenSession(p) PROVE IssuesNothing(d)
  BY <1>13 DEF CreateRefreshTokenSession
<1>14. ASSUME NEW p \in Procs, ReplayAccess(p) PROVE IssuesNothing(d)
  BY <1>14 DEF ReplayAccess
<1>15. ASSUME NEW p \in Procs, ReplayRefresh(p) PROVE IssuesNothing(d)
  BY <1>15 DEF ReplayRefresh
<1>16. ASSUME NEW p \in Procs, ReuseToken(p) PROVE IssuesNothing(d)
  BY <1>16 DEF ReuseToken
<1>17. ASSUME NEW p \in Procs, ReuseRefresh(p) PROVE IssuesNothing(d)
  BY <1>17 DEF ReuseRefresh
<1>18. ASSUME NEW p \in Procs, ReuseAccess(p) PROVE IssuesNothing(d)
  BY <1>18 DEF ReuseAccess
<1>19. ASSUME NEW p \in Procs, NEW g \in Grants, RevokeToken(p, g) PROVE IssuesNothing(d)
  BY <1>19 DEF RevokeToken
<1>20. ASSUME NEW p \in Procs, RevokeRefresh(p) PROVE IssuesNothing(d)
  BY <1>20 DEF RevokeRefresh
<1>21. ASSUME NEW p \in Procs, RevokeAccess(p) PROVE IssuesNothing(d)
  BY <1>21 DEF RevokeAccess
<1>22. ASSUME NEW p \in Procs, NEW s \in Subjects, RevokeForSubject(p, s)
       PROVE  IssuesNothing(d)
  BY <1>22 DEF RevokeForSubject
<1>23. ASSUME NEW p \in Procs, NEW s \in Subjects, NEW c \in Clients, RevokeConsent(p, s, c)
       PROVE  IssuesNothing(d)
  BY <1>23 DEF RevokeConsent
<1>24. ASSUME NEW p \in Procs, SweepCodes(p) PROVE IssuesNothing(d)
  BY <1>24 DEF SweepCodes
<1>25. ASSUME NEW p \in Procs, SweepAccess(p) PROVE IssuesNothing(d)
  BY <1>25 DEF SweepAccess
<1>26. ASSUME NEW p \in Procs, SweepRefresh(p) PROVE IssuesNothing(d)
  BY <1>26 DEF SweepRefresh
<1>27. ASSUME NEW p \in Procs, SweepPKCE(p) PROVE IssuesNothing(d)
  BY <1>27 DEF SweepPKCE
<1>28. ASSUME NEW p \in Procs, Abort(p) PROVE IssuesNothing(d)
  BY <1>28 DEF Abort
<1>29. CASE UNCHANGED vars
  BY <1>29 DEF vars
<1>30. QED
  BY <1>1, <1>2, <1>3, <1>4, <1>5, <1>6, <1>7, <1>8, <1>9, <1>10, <1>11, <1>12, <1>13,
     <1>14, <1>15, <1>16, <1>17, <1>18, <1>19, <1>20, <1>21, <1>22, <1>23, <1>24, <1>25,
     <1>26, <1>27, <1>28, <1>29 DEF Next, Authorize, Exchange, Revoke

\* DeadGrantsStayDead, for every instance: a grant nothing is in flight for,
\* with no active code and no active refresh token, never issues again.
THEOREM DeadForGood == Spec => DeadGrantsStayDead
<1>1. Typed /\ [Next]_vars =>
        [\A g \in Grants : Dead(g) => IssuesNothing(g)]_vars
  BY DeadStep
<1>2. QED
  BY InitTyped, StepTyped, <1>1, PTL DEF Spec, DeadGrantsStayDead

-----------------------------------------------------------------------------
(* What tokens came from.                                                  *)

Redeemed(g) == codes[g] \in {"used", "deleted"}

\* Nobody inserts a code that has a row, or had one, and who mints, rotates or
\* has minted does it for a grant whose code is spent.
CodesFit ==
    /\ \A p \in Procs : pc[p] = "code_insert" =>
          \A g \in scope[p] :
              /\ codes[g] = "pending"
              /\ \A q \in Procs : pc[q] = "code_insert" /\ g \in scope[q] => q = p
    /\ \A p \in Procs : pc[p] \in ExchangeSteps =>
          \A g \in scope[p] : codes[g] \in {"active", "used", "deleted"}
    /\ \A p \in Procs : pc[p] \in MintSteps \cup {"rotate"} => \A g \in scope[p] : Redeemed(g)
    /\ \A r \in refresh : Redeemed(r.gid)
    /\ \A m \in minted : Redeemed(m.gid)

\* Every statement keeps a spent code spent, and spends it before it mints.
LEMMA CodesStep ==
    ASSUME Typed, CodesFit, [Next]_vars
    PROVE  CodesFit'
<1> USE DEF CodesFit, Redeemed, Typed, TypeOK, ExchangeSteps, MintSteps, Start,
        StartIssuing, StartSweep, GoTo, End, tables, locals, history, DeleteAccessRows,
        DeleteRefreshRows, AccessWithout, RefreshWithout, CodesWithout
<1>1. ASSUME NEW p \in Procs, NEW g \in Grants, AuthorizeConsented(p, g) PROVE CodesFit'
  BY <1>1 DEF AuthorizeConsented
<1>2. ASSUME NEW p \in Procs, NEW g \in Grants, AuthorizeAllowed(p, g) PROVE CodesFit'
  BY <1>2 DEF AuthorizeAllowed
<1>3. ASSUME NEW p \in Procs, CreateAuthorizeCodeSession(p) PROVE CodesFit'
  BY <1>3 DEF CreateAuthorizeCodeSession
<1>4. ASSUME NEW p \in Procs, CreatePKCERequestSession(p) PROVE CodesFit'
  BY <1>4 DEF CreatePKCERequestSession
<1>5. ASSUME NEW p \in Procs, NEW g \in Grants, ExchangeCode(p, g) PROVE CodesFit'
  BY <1>5 DEF ExchangeCode
<1>6. ASSUME NEW p \in Procs, GetPKCERequestSession(p) PROVE CodesFit'
  BY <1>6 DEF GetPKCERequestSession
<1>7. ASSUME NEW p \in Procs, DeletePKCERequestSession(p) PROVE CodesFit'
  BY <1>7 DEF DeletePKCERequestSession
<1>8. ASSUME NEW p \in Procs, GetAuthorizeCodeAgain(p) PROVE CodesFit'
  BY <1>8 DEF GetAuthorizeCodeAgain
<1>9. ASSUME NEW p \in Procs, InvalidateAuthorizeCodeSession(p) PROVE CodesFit'
  BY <1>9 DEF InvalidateAuthorizeCodeSession
<1>10. ASSUME NEW p \in Procs, NEW r \in refresh, ExchangeRefreshToken(p, r) PROVE CodesFit'
  BY <1>10 DEF ExchangeRefreshToken
<1>11. ASSUME NEW p \in Procs, RotateRefreshToken(p) PROVE CodesFit'
  BY <1>11 DEF RotateRefreshToken
<1>12. ASSUME NEW p \in Procs, CreateAccessTokenSession(p) PROVE CodesFit'
  BY <1>12 DEF CreateAccessTokenSession
<1>13. ASSUME NEW p \in Procs, CreateRefreshTokenSession(p) PROVE CodesFit'
  BY <1>13 DEF CreateRefreshTokenSession
<1>14. ASSUME NEW p \in Procs, ReplayAccess(p) PROVE CodesFit'
  BY <1>14 DEF ReplayAccess
<1>15. ASSUME NEW p \in Procs, ReplayRefresh(p) PROVE CodesFit'
  BY <1>15 DEF ReplayRefresh
<1>16. ASSUME NEW p \in Procs, ReuseToken(p) PROVE CodesFit'
  BY <1>16 DEF ReuseToken
<1>17. ASSUME NEW p \in Procs, ReuseRefresh(p) PROVE CodesFit'
  BY <1>17 DEF ReuseRefresh
<1>18. ASSUME NEW p \in Procs, ReuseAccess(p) PROVE CodesFit'
  BY <1>18 DEF ReuseAccess
<1>19. ASSUME NEW p \in Procs, NEW g \in Grants, RevokeToken(p, g) PROVE CodesFit'
  BY <1>19 DEF RevokeToken
<1>20. ASSUME NEW p \in Procs, RevokeRefresh(p) PROVE CodesFit'
  BY <1>20 DEF RevokeRefresh
<1>21. ASSUME NEW p \in Procs, RevokeAccess(p) PROVE CodesFit'
  BY <1>21 DEF RevokeAccess
<1>22. ASSUME NEW p \in Procs, NEW s \in Subjects, RevokeForSubject(p, s) PROVE CodesFit'
  BY <1>22 DEF RevokeForSubject
<1>23. ASSUME NEW p \in Procs, NEW s \in Subjects, NEW c \in Clients, RevokeConsent(p, s, c)
        PROVE CodesFit'
  BY <1>23 DEF RevokeConsent
<1>24. ASSUME NEW p \in Procs, SweepCodes(p) PROVE CodesFit'
  BY <1>24 DEF SweepCodes
<1>25. ASSUME NEW p \in Procs, SweepAccess(p) PROVE CodesFit'
  BY <1>25 DEF SweepAccess
<1>26. ASSUME NEW p \in Procs, SweepRefresh(p) PROVE CodesFit'
  BY <1>26 DEF SweepRefresh
<1>27. ASSUME NEW p \in Procs, SweepPKCE(p) PROVE CodesFit'
  BY <1>27 DEF SweepPKCE
<1>28. ASSUME NEW p \in Procs, Abort(p) PROVE CodesFit'
  BY <1>28 DEF Abort
<1>29. CASE UNCHANGED vars
  BY <1>29 DEF vars
<1> QED
  BY <1>1, <1>2, <1>3, <1>4, <1>5, <1>6, <1>7, <1>8, <1>9, <1>10, <1>11, <1>12,
     <1>13, <1>14, <1>15, <1>16, <1>17, <1>18, <1>19, <1>20, <1>21, <1>22, <1>23,
     <1>24, <1>25, <1>26, <1>27, <1>28, <1>29 DEF Next, Authorize, Exchange, Revoke

\* TokensSpendTheirSource, for every instance: whatever is abandoned, replayed
\* or swept in between, a token never exists beside a code of its grant or a
\* refresh token it was minted from that still works.
THEOREM SourcesAreSpent == Spec => []TokensSpendTheirSource
<1>1. Init => CodesFit
  BY DEF Init, CodesFit, ExchangeSteps, MintSteps
<1>2. IInv /\ CodesFit /\ [Next]_vars => CodesFit'
  BY CodesStep DEF IInv, Typed
<1>3. IInv /\ CodesFit => TokensSpendTheirSource
  <2> SUFFICES ASSUME IInv, CodesFit, NEW m \in minted
               PROVE  Redeemed(m.gid) /\ \A r \in refresh : r.sig = m.from => ~r.active
    BY DEF TokensSpendTheirSource, Redeemed
  <2>1. \A r \in refresh : r.sig # 0
    BY GrantAssumption DEF IInv, TypeOK, Sigs
  <2> QED BY <2>1 DEF IInv, WinnersHoldSpentTokens, CodesFit
<1> QED BY <1>1, <1>2, <1>3, Inductive, PTL DEF Spec

-----------------------------------------------------------------------------
(* Quiet sweeps.                                                           *)

SweepSteps == {"sweep_codes", "sweep_access", "sweep_refresh", "sweep_pkce"}

\* A sweep of quiet: nothing is issued for its scope while it runs, and the
\* tables it has been through hold nothing of its scope.
QuietFits(q) ==
    /\ pc[q] \in SweepSteps
    /\ \A g \in scope[q] : ~Issuing(g)
    /\ pc[q] # "sweep_codes" => \A g \in scope[q] : codes[g] \notin {"active", "used"}
    /\ pc[q] \in {"sweep_refresh", "sweep_pkce"} => \A a \in access : a.gid \notin scope[q]
    /\ pc[q] = "sweep_pkce" => \A r \in refresh : r.gid \notin scope[q]

QInv == Typed /\ \A q \in quiet : QuietFits(q)

\* A sweep that is quiet after a step fits, its own steps and those of every
\* request beside it alike.
LEMMA QuietStep ==
    ASSUME Typed, [Next]_vars, NEW q \in quiet', q \in Procs, q \in quiet => QuietFits(q)
    PROVE  QuietFits(q)'
<1> USE DEF QuietFits, Typed, TypeOK, Issuing, IssuingSteps, AuthorizeSteps, SweepSteps,
        ExchangeSteps, MintSteps, Start, StartIssuing, StartSweep, GoTo, End, tables,
        locals, history, DeleteAccessRows, DeleteRefreshRows, AccessWithout,
        RefreshWithout, CodesWithout
<1>1. ASSUME NEW p \in Procs, NEW g \in Grants, AuthorizeConsented(p, g) PROVE QuietFits(q)'
  BY <1>1 DEF AuthorizeConsented
<1>2. ASSUME NEW p \in Procs, NEW g \in Grants, AuthorizeAllowed(p, g) PROVE QuietFits(q)'
  BY <1>2 DEF AuthorizeAllowed
<1>3. ASSUME NEW p \in Procs, CreateAuthorizeCodeSession(p) PROVE QuietFits(q)'
  BY <1>3 DEF CreateAuthorizeCodeSession
<1>4. ASSUME NEW p \in Procs, CreatePKCERequestSession(p) PROVE QuietFits(q)'
  BY <1>4 DEF CreatePKCERequestSession
<1>5. ASSUME NEW p \in Procs, NEW g \in Grants, ExchangeCode(p, g) PROVE QuietFits(q)'
  BY <1>5 DEF ExchangeCode
<1>6. ASSUME NEW p \in Procs, GetPKCERequestSession(p) PROVE QuietFits(q)'
  BY <1>6 DEF GetPKCERequestSession
<1>7. ASSUME NEW p \in Procs, DeletePKCERequestSession(p) PROVE QuietFits(q)'
  BY <1>7 DEF DeletePKCERequestSession
<1>8. ASSUME NEW p \in Procs, GetAuthorizeCodeAgain(p) PROVE QuietFits(q)'
  BY <1>8 DEF GetAuthorizeCodeAgain
<1>9. ASSUME NEW p \in Procs, InvalidateAuthorizeCodeSession(p) PROVE QuietFits(q)'
  BY <1>9 DEF InvalidateAuthorizeCodeSession
<1>10. ASSUME NEW p \in Procs, NEW r \in refresh, ExchangeRefreshToken(p, r)
      PROVE  QuietFits(q)'
  BY <1>10 DEF ExchangeRefreshToken
<1>11. ASSUME NEW p \in Procs, RotateRefreshToken(p) PROVE QuietFits(q)'
  BY <1>11 DEF RotateRefreshToken
<1>12. ASSUME NEW p \in Procs, CreateAccessTokenSession(p) PROVE QuietFits(q)'
  BY <1>12 DEF CreateAccessTokenSession
<1>13. ASSUME NEW p \in Procs, CreateRefreshTokenSession(p) PROVE QuietFits(q)'
  BY <1>13 DEF CreateRefreshTokenSession
<1>14. ASSUME NEW p \in Procs, ReplayAccess(p) PROVE QuietFits(q)'
  BY <1>14 DEF ReplayAccess
<1>15. ASSUME NEW p \in Procs, ReplayRefresh(p) PROVE QuietFits(q)'
  BY <1>15 DEF ReplayRefresh
<1>16. ASSUME NEW p \in Procs, ReuseToken(p) PROVE QuietFits(q)'
  BY <1>16 DEF ReuseToken
<1>17. ASSUME NEW p \in Procs, ReuseRefresh(p) PROVE QuietFits(q)'
  BY <1>17 DEF ReuseRefresh
<1>18. ASSUME NEW p \in Procs, ReuseAccess(p) PROVE QuietFits(q)'
  BY <1>18 DEF ReuseAccess
<1>19. ASSUME NEW p \in Procs, NEW g \in Grants, RevokeToken(p, g) PROVE QuietFits(q)'
  BY <1>19 DEF RevokeToken
<1>20. ASSUME NEW p \in Procs, RevokeRefresh(p) PROVE QuietFits(q)'
  BY <1>20 DEF RevokeRefresh
<1>21. ASSUME NEW p \in Procs, RevokeAccess(p) PROVE QuietFits(q)'
  BY <1>21 DEF RevokeAccess
<1>22. ASSUME NEW p \in Procs, NEW s \in Subjects, RevokeForSubject(p, s) PROVE QuietFits(q)'
  BY <1>22 DEF RevokeForSubject
<1>23. ASSUME NEW p \in Procs, NEW s \in Subjects, NEW c \in Clients, RevokeConsent(p, s, c)
      PROVE  QuietFits(q)'
  BY <1>23 DEF RevokeConsent
<1>24. ASSUME NEW p \in Procs, SweepCodes(p) PROVE QuietFits(q)'
  BY <1>24 DEF SweepCodes
<1>25. ASSUME NEW p \in Procs, SweepAccess(p) PROVE QuietFits(q)'
  BY <1>25 DEF SweepAccess
<1>26. ASSUME NEW p \in Procs, SweepRefresh(p) PROVE QuietFits(q)'
  BY <1>26 DEF SweepRefresh
<1>27. ASSUME NEW p \in Procs, SweepPKCE(p) PROVE QuietFits(q)'
  BY <1>27 DEF SweepPKCE
<1>28. ASSUME NEW p \in Procs, Abort(p) PROVE QuietFits(q)'
  BY <1>28 DEF Abort
<1>29. CASE UNCHANGED vars
  BY <1>29 DEF vars
<1>30. QED
  BY <1>1, <1>2, <1>3, <1>4, <1>5, <1>6, <1>7, <1>8, <1>9, <1>10, <1>11, <1>12, <1>13,
     <1>14, <1>15, <1>16, <1>17, <1>18, <1>19, <1>20, <1>21, <1>22, <1>23, <1>24, <1>25,
     <1>26, <1>27, <1>28, <1>29 DEF Next, Authorize, Exchange, Revoke

\* When a sweep that no request of its scope overlapped reaches its last
\* table, no code and no token of the scope is left, for every instance.
THEOREM SweepsAreComplete == Spec => []QuietSweepLeavesNothing
<1>1. Init => QInv
  BY InitTyped DEF QInv, Init
<1>2. QInv /\ [Next]_vars => QInv'
  <2>1. SUFFICES ASSUME QInv, [Next]_vars PROVE QInv'
    OBVIOUS
  <2>2. Typed'
    BY <2>1, StepTyped DEF QInv
  <2>3. \A q \in quiet' : q \in Procs
    BY <2>2 DEF Typed, TypeOK
  <2>4. \A q \in quiet' : QuietFits(q)'
    BY <2>1, <2>3, QuietStep DEF QInv
  <2>5. QED
    BY <2>2, <2>4 DEF QInv
<1>3. QInv => QuietSweepLeavesNothing
  BY DEF QInv, QuietFits, QuietSweepLeavesNothing, SweepLeavesNothing
<1>4. QED
  BY <1>1, <1>2, <1>3, PTL DEF Spec

-----------------------------------------------------------------------------
(*                                   Sdk                                   *)
-----------------------------------------------------------------------------

Issued == 1..Len(grants)
Begun  == 1..Len(flows)

\* A call that presents a code or a refresh token.
Redeeming(c) == call[c].op \in {"exchange", "refresh"}

\* Whatever names a grant names one there is.
NamesAreIssued ==
    /\ \A t \in Tabs : url[t] # 0 => url[t] \in Issued
    /\ \A c \in Calls : Redeeming(c) => call[c].grant \in Issued
    /\ store.grant # 0 => store.grant \in Issued
    /\ store.refresh # 0 => store.grant # 0
    /\ \A c \in Calls : call[c].op = "refresh" => call[c].refresh # 0
    /\ \A c \in Calls : call[c].op = "exchange" => call[c].refresh = 0

\* Only a code or a token is looked up, and a registration that is done has
\* a client.
AnswersFit ==
    /\ \A c \in Calls : call[c].srv = "read" => Redeeming(c)
    /\ \A c \in Calls : call[c].op = "register" /\ call[c].srv = "done" => call[c].client # 0

\* An authorization and every grant it led to are of one client.
FlowsFit ==
    /\ \A t \in Tabs : pending[t] # NoPending =>
          pending[t].flow \in Begun /\ pending[t].client = flows[pending[t].flow]
    /\ \A g \in Issued : grants[g].flow \in Begun /\ grants[g].client = flows[grants[g].flow]

\* A code is in one place: in the location of one tab, or presented by one
\* call.  While it is, no token of its grant has reached the browser.
CodeHeldOnce ==
    /\ \A t, u \in Tabs : url[t] # 0 /\ url[t] = url[u] => t = u
    /\ \A t \in Tabs, c \in Calls : url[t] # 0 /\ Redeeming(c) => call[c].grant # url[t]
    /\ \A c, d \in Calls : call[c].op = "exchange" /\ Redeeming(d)
                           /\ call[c].grant = call[d].grant => c = d
    /\ \A t \in Tabs : url[t] # 0 => url[t] # store.grant /\ grants[url[t]].code = "active"
    /\ \A c \in Calls : call[c].op = "exchange" => call[c].grant # store.grant
    /\ \A c \in Calls : call[c].op = "exchange" /\ call[c].srv # "done" =>
          grants[call[c].grant].code = "active"
    /\ \A c \in Calls : call[c].op = "exchange" /\ call[c].srv = "done" =>
          call[c].got = grants[call[c].grant].active

\* Of a grant that is not excused, the working refresh token is held by one
\* refresh at most, which presents it or brings its successor.
TokenHeldOnce ==
    /\ \A c, d \in Calls : call[c].op = "refresh" /\ call[d].op = "refresh"
          /\ call[c].grant = call[d].grant /\ call[c].grant \notin excused => c = d
    /\ \A c \in Calls : call[c].op = "refresh" /\ call[c].grant \notin excused =>
          IF call[c].srv = "done" THEN /\ call[c].got = grants[call[c].grant].active
                                       /\ call[c].got # 0
                                  ELSE call[c].refresh = grants[call[c].grant].active
    /\ \A g \in Issued : grants[g].active # 0 => grants[g].offline

SdkTyped == SdkTypeOK /\ AnswersFit

HeldOnce == /\ NamesAreIssued /\ CodeHeldOnce /\ TokenHeldOnce
            /\ OnlyRacesKillGrants /\ StoredTokenWorks

SdkInv == SdkTyped /\ FlowsFit /\ ExchangesMatch /\ HeldOnce

-----------------------------------------------------------------------------
(* What the lists and the records of the model give.                       *)

\* Grants and authorizations are numbered from 1.
LEMMA ListsTyped ==
    ASSUME SdkTypeOK
    PROVE  /\ Len(grants) \in Nat /\ DOMAIN grants = Issued
           /\ Len(flows) \in Nat /\ DOMAIN flows = Begun
           /\ \A g \in Issued : grants[g] \in GrantRecord
           /\ \A f \in Begun : flows[f] \in ClientIds
BY DEF SdkTypeOK, Issued, Begun

\* A grant of a well-formed list may be replaced by any other.
LEMMA GrantChanges ==
    ASSUME SdkTypeOK, NEW g \in Issued, NEW r \in GrantRecord,
           grants' = [grants EXCEPT ![g] = r]
    PROVE  /\ grants' \in Seq(GrantRecord) /\ Len(grants') = Len(grants)
           /\ Issued' = Issued
           /\ grants'[g] = r
           /\ \A h \in Issued : h # g => grants'[h] = grants[h]
<1>1. grants \in Seq(GrantRecord) /\ g \in 1..Len(grants)
  BY DEF SdkTypeOK, Issued
<1>2. QED
  BY <1>1, ExceptSeq DEF Issued

\* A new grant leaves the others as they are.
LEMMA GrantAdded ==
    ASSUME SdkTypeOK, NEW r \in GrantRecord, grants' = Append(grants, r)
    PROVE  /\ grants' \in Seq(GrantRecord) /\ Len(grants') = Len(grants) + 1
           /\ Issued' = Issued \cup {Len(grants) + 1} /\ Len(grants) + 1 \notin Issued
           /\ grants'[Len(grants) + 1] = r
           /\ \A h \in Issued : grants'[h] = grants[h]
BY ListsTyped DEF SdkTypeOK, Issued

\* So does a new authorization.
LEMMA FlowAdded ==
    ASSUME SdkTypeOK, NEW k \in ClientIds, flows' = Append(flows, k)
    PROVE  /\ flows' \in Seq(ClientIds) /\ Len(flows') = Len(flows) + 1
           /\ Begun' = Begun \cup {Len(flows) + 1}
           /\ flows'[Len(flows) + 1] = k
           /\ \A f \in Begun : flows'[f] = flows[f]
BY ListsTyped DEF SdkTypeOK, Begun

\* No call is a call record that presents nothing.
LEMMA NoCallTyped == NoCall \in CallRecord /\ NoCall.op = "none" /\ NoCall.srv = "sent"
BY SdkAssumption DEF NoCall, CallRecord

\* Nothing changes about a call but who waits for it.
Kept(c) ==
    /\ call'[c].op = call[c].op /\ call'[c].srv = call[c].srv
    /\ call'[c].grant = call[c].grant /\ call'[c].refresh = call[c].refresh
    /\ call'[c].client = call[c].client /\ call'[c].flow = call[c].flow
    /\ call'[c].got = call[c].got

\* A call that is sent, or ends, leaves every other one as it is.
LEMMA OneCall ==
    ASSUME SdkTypeOK, NEW c \in Calls, NEW r \in CallRecord,
           call' = [call EXCEPT ![c] = r]
    PROVE  /\ call' \in [Calls -> CallRecord] /\ call'[c] = r
           /\ \A d \in Calls : d # c => call'[d] = call[d]
BY DEF SdkTypeOK

\* Leaving a page changes nothing else about the calls it waited for.
LEMMA UnheardKeeps ==
    ASSUME SdkTypeOK, NEW t, call' = Unheard(t)
    PROVE  call' \in [Calls -> CallRecord] /\ \A c \in Calls : Kept(c)
<1>1. ASSUME NEW c \in Calls PROVE call'[c] \in CallRecord /\ Kept(c)
  <2>1. call[c] \in CallRecord
    BY DEF SdkTypeOK
  <2>2. call'[c] = call[c] \/ call'[c] = [call[c] EXCEPT !.heard = FALSE]
    BY DEF Unheard
  <2>3. QED
    BY <2>1, <2>2 DEF Kept, CallRecord
<1>2. call' = [c \in Calls |-> call'[c]]
  BY DEF Unheard
<1>3. QED
  BY <1>1, <1>2

-----------------------------------------------------------------------------
(* Types.                                                                  *)

\* A browser with nothing stored.
LEMMA InitSdkTyped == SdkInit => SdkTyped
<1>1. SUFFICES ASSUME SdkInit PROVE SdkTyped
  OBVIOUS
<1>2. call \in [Calls -> CallRecord] /\ \A c \in Calls : call[c] = NoCall
  BY <1>1, NoCallTyped DEF SdkInit
<1>3. SdkTypeOK
  BY <1>1, <1>2, SdkAssumption DEF SdkInit, SdkTypeOK, NoTokens, NoPending
<1>4. AnswersFit
  BY <1>2, NoCallTyped DEF AnswersFit
<1>5. QED
  BY <1>3, <1>4 DEF SdkTyped

\* A call that ends leaves well-formed calls.
LEMMA ReturnTyped ==
    ASSUME SdkTyped, NEW c \in Calls, Return(c)
    PROVE  /\ call' \in [Calls -> CallRecord] /\ AnswersFit'
           /\ call'[c].op = "none"
           /\ \A d \in Calls : d # c => call'[d] = call[d]
<1>1. /\ call' \in [Calls -> CallRecord] /\ call'[c] = NoCall
      /\ \A d \in Calls : d # c => call'[d] = call[d]
  BY NoCallTyped, OneCall DEF Return, SdkTyped
<1>2. QED
  BY <1>1, NoCallTyped DEF SdkTyped, AnswersFit, Redeeming

\* connect() sends a registration or begins an authorization.
LEMMA ConnectTyped ==
    ASSUME SdkTyped, NEW c \in Calls, NEW t \in Tabs, Connect(c, t)
    PROVE  SdkTyped'
<1>1. CASE cache # 0 /\ BeginAuthorize(t, cache) /\ UNCHANGED call
  <2>1. cache \in ClientIds
    BY <1>1, SdkAssumption DEF SdkTyped, SdkTypeOK, ClientIds
  <2>2. flows' \in Seq(ClientIds) /\ Len(flows') <= MaxFlow
    BY <1>1, <2>1, FlowAdded, ListsTyped, SdkAssumption DEF SdkTyped, BeginAuthorize
  <2>3. pending' \in [Tabs -> [flow : 0..MaxFlow, client : 0..MaxClient]]
    <3>1. [flow |-> Len(flows) + 1, client |-> cache] \in [flow : 0..MaxFlow, client : 0..MaxClient]
      BY <1>1, <2>1, ListsTyped, SdkAssumption DEF SdkTyped, BeginAuthorize, ClientIds
    <3>2. QED
      BY <1>1, <3>1 DEF SdkTyped, SdkTypeOK, BeginAuthorize
  <2>4. QED
    BY <1>1, <2>2, <2>3 DEF SdkTyped, SdkTypeOK, AnswersFit, Redeeming, Connect
<1>2. CASE Send(c, [NoCall EXCEPT !.op = "register", !.tab = t, !.heard = TRUE])
           /\ UNCHANGED <<flows, pending>>
  <2> DEFINE r == [NoCall EXCEPT !.op = "register", !.tab = t, !.heard = TRUE]
  <2>1. r \in CallRecord /\ r.srv = "sent" /\ r.op = "register"
    BY NoCallTyped DEF CallRecord
  <2>2. call' = [call EXCEPT ![c] = r]
    BY <1>2 DEF Send
  <2> HIDE DEF r
  <2>3. call' \in [Calls -> CallRecord] /\ AnswersFit'
    BY <2>1, <2>2, OneCall DEF SdkTyped, AnswersFit, Redeeming
  <2>4. QED
    BY <1>2, <2>3 DEF SdkTyped, SdkTypeOK, Connect
<1>3. QED
  BY <1>1, <1>2 DEF Connect

\* So does the answer to a registration.
LEMMA RegisteredTyped ==
    ASSUME SdkTyped, NEW c \in Calls, Registered(c)
    PROVE  SdkTyped'
<1> DEFINE k == call[c].client
<1>1. k \in ClientIds /\ k \in 0..MaxClient
  BY SdkAssumption DEF SdkTyped, SdkTypeOK, AnswersFit, Registered, CallRecord, ClientIds
<1>2. /\ Len(flows) < MaxFlow /\ flows' = Append(flows, k) /\ cache' = k
      /\ pending' = [pending EXCEPT ![call[c].tab] = [flow |-> Len(flows) + 1, client |-> k]]
  BY DEF Registered, BeginAuthorize
<1> HIDE DEF k
<1>3. flows' \in Seq(ClientIds) /\ Len(flows') <= MaxFlow
  BY <1>1, <1>2, FlowAdded, ListsTyped, SdkAssumption DEF SdkTyped
<1>4. pending' \in [Tabs -> [flow : 0..MaxFlow, client : 0..MaxClient]]
  <2>1. [flow |-> Len(flows) + 1, client |-> k] \in [flow : 0..MaxFlow, client : 0..MaxClient]
    BY <1>1, <1>2, ListsTyped, SdkAssumption DEF SdkTyped
  <2>2. QED
    BY <1>2, <2>1 DEF SdkTyped, SdkTypeOK
<1>5. call' \in [Calls -> CallRecord] /\ AnswersFit'
  BY ReturnTyped DEF Registered
<1>6. QED
  BY <1>1, <1>2, <1>3, <1>4, <1>5 DEF SdkTyped, SdkTypeOK, Registered

\* The redirect callback consumes the redirect and may send an exchange.
LEMMA CallbackTyped ==
    ASSUME SdkTyped, NEW c \in Calls, NEW t \in Tabs, HandleRedirectCallback(c, t)
    PROVE  SdkTyped'
<1>1. call' \in [Calls -> CallRecord] /\ AnswersFit'
  <2>1. CASE UNCHANGED call
    BY <2>1 DEF SdkTyped, SdkTypeOK, AnswersFit, Redeeming
  <2>2. CASE SendExchange(c, t, pending[t].client)
    <3> DEFINE r == [NoCall EXCEPT !.op = "exchange", !.tab = t, !.heard = TRUE,
                        !.grant = url[t], !.client = pending[t].client, !.flow = pending[t].flow]
    <3>1. r \in CallRecord /\ r.op = "exchange"
      BY NoCallTyped DEF CallRecord, SdkTyped, SdkTypeOK
    <3>2. call' = [call EXCEPT ![c] = r]
      BY <2>2 DEF SendExchange, Send
    <3> HIDE DEF r
    <3>3. QED
      BY <3>1, <3>2, OneCall DEF SdkTyped, AnswersFit, Redeeming
  <2>3. QED
    BY <2>1, <2>2 DEF HandleRedirectCallback
<1>2. /\ pending' \in [Tabs -> [flow : 0..MaxFlow, client : 0..MaxClient]]
      /\ url' \in [Tabs -> 0..MaxGrant]
  BY SdkAssumption DEF SdkTyped, SdkTypeOK, HandleRedirectCallback, ConsumeRedirect, NoPending
<1>3. QED
  BY <1>1, <1>2 DEF SdkTyped, SdkTypeOK, HandleRedirectCallback

\* getAccessToken() sends the stored refresh token.
LEMMA GetAccessTokenTyped ==
    ASSUME SdkTyped, store.refresh # 0 => store.grant # 0,
           NEW c \in Calls, NEW t \in Tabs, GetAccessToken(c, t)
    PROVE  SdkTyped'
<1> DEFINE r == [NoCall EXCEPT !.op = "refresh", !.tab = t, !.heard = TRUE, !.grant = store.grant,
                               !.refresh = store.refresh, !.client = store.client]
<1>1. r \in CallRecord /\ r.op = "refresh"
  BY NoCallTyped DEF CallRecord, SdkTyped, SdkTypeOK
<1>2. call' = [call EXCEPT ![c] = r]
  BY DEF GetAccessToken, Send
<1> HIDE DEF r
<1>3. call' \in [Calls -> CallRecord] /\ AnswersFit'
  BY <1>1, <1>2, OneCall DEF SdkTyped, AnswersFit, Redeeming
<1>4. store.grant \in GrantIds
  BY SdkAssumption DEF GetAccessToken, SdkTyped, SdkTypeOK, GrantIds
<1>5. excused' \subseteq GrantIds
  BY <1>4 DEF GetAccessToken, SdkTyped, SdkTypeOK
<1>6. QED
  BY <1>3, <1>5 DEF SdkTyped, SdkTypeOK, GetAccessToken

\* The tokens that arrive are stored.
LEMMA TokensArriveTyped ==
    ASSUME SdkTyped, NEW c \in Calls, TokensArrive(c)
    PROVE  SdkTyped'
<1>1. call' \in [Calls -> CallRecord] /\ AnswersFit'
  BY ReturnTyped DEF TokensArrive
<1>2. store' \in [grant : 0..MaxGrant, refresh : 0..MaxToken, client : 0..MaxClient, fresh : BOOLEAN]
  BY DEF TokensArrive, StoredTokens, SdkTyped, SdkTypeOK, CallRecord
<1>3. QED
  BY <1>1, <1>2 DEF SdkTyped, SdkTypeOK, TokensArrive

\* POST /oauth/register hands out the next client.
LEMMA ServeRegisterTyped ==
    ASSUME SdkTyped, NEW c \in Calls, ServeRegister(c)
    PROVE  SdkTyped'
<1> DEFINE r == [call[c] EXCEPT !.srv = "done", !.client = clients + 1]
<1>1. clients + 1 \in 0..MaxClient /\ clients + 1 # 0
  BY SdkAssumption DEF SdkTyped, SdkTypeOK, ServeRegister
<1>2. r \in CallRecord /\ r.op = "register" /\ r.client # 0 /\ r.srv = "done"
  BY <1>1 DEF ServeRegister, SdkTyped, SdkTypeOK, CallRecord
<1>3. call' = [call EXCEPT ![c] = r]
  BY DEF ServeRegister, SdkTyped, SdkTypeOK
<1> HIDE DEF r
<1>4. call' \in [Calls -> CallRecord] /\ AnswersFit'
  BY <1>2, <1>3, OneCall DEF SdkTyped, AnswersFit, Redeeming
<1>5. QED
  BY <1>1, <1>4 DEF SdkTyped, SdkTypeOK, ServeRegister

\* What Kill does to the grant of a call.
LEMMA KillChanges ==
    ASSUME SdkTyped, NEW g \in Issued, Kill(g)
    PROVE  /\ grants' = [grants EXCEPT ![g] = [grants[g] EXCEPT !.dead = TRUE, !.active = 0]]
           /\ [grants[g] EXCEPT !.dead = TRUE, !.active = 0] \in GrantRecord
<1>1. grants[g] \in GrantRecord /\ DOMAIN grants = Issued
  BY ListsTyped DEF SdkTyped
<1>2. QED
  <2>1. 0 \in 0..MaxToken
    BY SdkAssumption
  <2>2. [grants[g] EXCEPT !.dead = TRUE, !.active = 0] \in GrantRecord
    BY <1>1, <2>1 DEF GrantRecord
  <2>3. QED
    BY <1>1, <2>2 DEF Kill

\* The token endpoint looks a credential up.
LEMMA ServeReadTyped ==
    ASSUME SdkTyped, NamesAreIssued, NEW c \in Calls, ServeRead(c)
    PROVE  SdkTyped'
<1>1. call' \in [Calls -> CallRecord] /\ AnswersFit'
  <2>1. CASE Return(c)
    BY <2>1, ReturnTyped
  <2>2. CASE call' = [call EXCEPT ![c].srv = "read"]
    <3> DEFINE r == [call[c] EXCEPT !.srv = "read"]
    <3>1. r \in CallRecord /\ r.op \in {"exchange", "refresh"}
      BY DEF ServeRead, SdkTyped, SdkTypeOK, CallRecord
    <3>2. call' = [call EXCEPT ![c] = r]
      BY <2>2 DEF SdkTyped, SdkTypeOK
    <3> HIDE DEF r
    <3>3. QED
      BY <3>1, <3>2, OneCall DEF SdkTyped, AnswersFit, Redeeming
  <2>3. QED
    BY <2>1, <2>2 DEF ServeRead
<1>2. grants' \in Seq(GrantRecord) /\ Len(grants') <= MaxGrant
  <2>1. CASE Kill(call[c].grant)
    <3>1. call[c].grant \in Issued
      BY DEF ServeRead, NamesAreIssued, Redeeming
    <3>2. QED
      BY <2>1, <3>1, KillChanges, GrantChanges DEF SdkTyped, SdkTypeOK
  <2>2. CASE UNCHANGED grants
    BY <2>2 DEF SdkTyped, SdkTypeOK
  <2>3. QED
    BY <2>1, <2>2 DEF ServeRead
<1>3. QED
  BY <1>1, <1>2 DEF SdkTyped, SdkTypeOK, ServeRead

\* The refresh token an exchange or a rotation mints: none without
\* offline_access.
NextToken(c) ==
    IF grants[call[c].grant].offline THEN grants[call[c].grant].minted + 1 ELSE 0

\* Issuing replaces the grant, and the call carries the new token.
LEMMA ServeIssueChanges ==
    ASSUME SdkTyped, NamesAreIssued, NEW c \in Calls, ServeIssue(c)
    PROVE  LET g == call[c].grant
               r == [grants[g] EXCEPT !.code = "used", !.active = NextToken(c), !.minted = NextToken(c)]
               k == [call[c] EXCEPT !.srv = "done", !.got = NextToken(c)]
           IN  /\ g \in Issued /\ Redeeming(c)
               /\ r \in GrantRecord /\ grants' = [grants EXCEPT ![g] = r]
               /\ k \in CallRecord /\ call' = [call EXCEPT ![c] = k]
<1> DEFINE n == NextToken(c)
           g == call[c].grant
<1>1. g \in Issued /\ Redeeming(c)
  BY DEF ServeIssue, NamesAreIssued, SdkTyped, AnswersFit
<1>2. grants[g] \in GrantRecord
  BY <1>1, ListsTyped DEF SdkTyped
<1>3. n \in 0..MaxToken
  BY <1>2, SdkAssumption DEF NextToken, ServeIssue, GrantRecord
<1>4. /\ grants' = [grants EXCEPT ![g] = [grants[g] EXCEPT !.code = "used", !.active = n, !.minted = n]]
      /\ call' = [call EXCEPT ![c].srv = "done", ![c].got = n]
  BY DEF ServeIssue, NextToken
<1> HIDE DEF n
<1>5. [grants[g] EXCEPT !.code = "used", !.active = n, !.minted = n] \in GrantRecord
  BY <1>2, <1>3 DEF GrantRecord
<1>6. [call[c] EXCEPT !.srv = "done", !.got = n] \in CallRecord
  BY <1>3 DEF SdkTyped, SdkTypeOK, CallRecord
<1>7. call' = [call EXCEPT ![c] = [call[c] EXCEPT !.srv = "done", !.got = n]]
  BY <1>4 DEF SdkTyped, SdkTypeOK
<1>8. QED
  BY <1>1, <1>4, <1>5, <1>6, <1>7 DEF n

\* The token endpoint issues the next pair.
LEMMA ServeIssueTyped ==
    ASSUME SdkTyped, NamesAreIssued, NEW c \in Calls, ServeIssue(c)
    PROVE  SdkTyped'
<1> DEFINE k == [call[c] EXCEPT !.srv = "done", !.got = NextToken(c)]
<1>1. k \in CallRecord /\ call' = [call EXCEPT ![c] = k]
  BY ServeIssueChanges
<1>2. k.op \in {"exchange", "refresh"}
  BY ServeIssueChanges DEF SdkTyped, SdkTypeOK, CallRecord, Redeeming
<1>3. grants' \in Seq(GrantRecord) /\ Len(grants') <= MaxGrant
  BY ServeIssueChanges, GrantChanges DEF SdkTyped, SdkTypeOK
<1> HIDE DEF k
<1>4. call' \in [Calls -> CallRecord] /\ AnswersFit'
  BY <1>1, <1>2, OneCall DEF SdkTyped, AnswersFit, Redeeming
<1>5. QED
  BY <1>3, <1>4 DEF SdkTyped, SdkTypeOK, ServeIssue

\* A request that breaks off leaves its grant without a working credential.
LEMMA ServeBreaksOffChanges ==
    ASSUME SdkTyped, NamesAreIssued, NEW c \in Calls, ServeBreaksOff(c)
    PROVE  LET g == call[c].grant
               r == [grants[g] EXCEPT !.code = "used", !.active = 0]
           IN  /\ g \in Issued /\ r \in GrantRecord /\ grants' = [grants EXCEPT ![g] = r]
<1> DEFINE g == call[c].grant
<1>1. g \in Issued
  BY DEF ServeBreaksOff, NamesAreIssued, SdkTyped, AnswersFit
<1>2. grants[g] \in GrantRecord /\ DOMAIN grants = Issued
  BY <1>1, ListsTyped DEF SdkTyped
<1>3. [grants[g] EXCEPT !.code = "used", !.active = 0] \in GrantRecord
  <2>1. 0 \in 0..MaxToken
    BY SdkAssumption
  <2>2. QED
    BY <1>2, <2>1 DEF GrantRecord
<1>4. grants' = [grants EXCEPT ![g] = [grants[g] EXCEPT !.code = "used", !.active = 0]]
  BY <1>1, <1>2 DEF ServeBreaksOff
<1>5. QED
  BY <1>1, <1>3, <1>4

\* The types survive that.
LEMMA ServeBreaksOffTyped ==
    ASSUME SdkTyped, NamesAreIssued, NEW c \in Calls, ServeBreaksOff(c)
    PROVE  SdkTyped'
<1>1. grants' \in Seq(GrantRecord) /\ Len(grants') <= MaxGrant
  BY ServeBreaksOffChanges, GrantChanges DEF SdkTyped, SdkTypeOK
<1>2. call' \in [Calls -> CallRecord] /\ AnswersFit'
  BY ReturnTyped DEF ServeBreaksOff
<1>3. call[c].grant \in GrantIds
  <2>1. call[c].grant \in Issued
    BY ServeBreaksOffChanges
  <2>2. QED
    BY <2>1, SdkAssumption, ListsTyped DEF SdkTyped, SdkTypeOK, Issued, GrantIds
<1>4. QED
  BY <1>1, <1>2, <1>3 DEF SdkTyped, SdkTypeOK, ServeBreaksOff

\* Answers that go nowhere keep the types.
LEMMA VanishTyped ==
    ASSUME SdkTyped, NamesAreIssued, NEW c \in Calls, Vanish(c)
    PROVE  SdkTyped'
<1>1. call' \in [Calls -> CallRecord] /\ AnswersFit'
  BY ReturnTyped DEF Vanish
<1>2. call[c].op = "refresh" => call[c].grant \in GrantIds
  BY SdkAssumption, ListsTyped DEF NamesAreIssued, Redeeming, SdkTyped, SdkTypeOK, Issued, GrantIds
<1>3. excused' \subseteq GrantIds
  BY <1>2 DEF Vanish, SdkTyped, SdkTypeOK
<1>4. QED
  BY <1>1, <1>3 DEF SdkTyped, SdkTypeOK, Vanish

\* An answer nobody waits for any more keeps the types.
LEMMA NetworkFailsTyped ==
    ASSUME SdkTyped, NEW c \in Calls, NetworkFails(c)
    PROVE  SdkTyped' /\ \A d \in Calls : Kept(d)
<1> DEFINE r == [call[c] EXCEPT !.heard = FALSE]
<1>1. r \in CallRecord /\ call' = [call EXCEPT ![c] = r]
  BY DEF NetworkFails, SdkTyped, SdkTypeOK, CallRecord
<1>2. call' \in [Calls -> CallRecord] /\ call'[c] = r /\ \A d \in Calls : d # c => call'[d] = call[d]
  BY <1>1, OneCall DEF SdkTyped
<1>3. \A d \in Calls : Kept(d)
  <2>1. call[c] \in CallRecord
    BY DEF SdkTyped, SdkTypeOK
  <2>2. Kept(c)
    BY <1>2, <2>1 DEF Kept, CallRecord
  <2>3. QED
    BY <1>2, <2>2 DEF Kept
<1>4. AnswersFit'
  BY <1>3 DEF AnswersFit, Redeeming, Kept, SdkTyped
<1>5. QED
  BY <1>2, <1>3, <1>4 DEF SdkTyped, SdkTypeOK, NetworkFails

\* The record of a grant the user has just approved.
Approved(f, o) == [flow |-> f, client |-> flows[f], offline |-> o, code |-> "active",
                   active |-> 0, minted |-> 0, dead |-> FALSE]

\* An approval adds a grant and loads the page that carries its code.
LEMMA ApproveTyped ==
    ASSUME SdkTyped, NEW t \in Tabs, NEW f \in FlowIds, NEW o \in BOOLEAN, Approve(t, f, o)
    PROVE  /\ SdkTyped' /\ f \in Begun
           /\ Approved(f, o) \in GrantRecord /\ grants' = Append(grants, Approved(f, o))
           /\ \A c \in Calls : Kept(c)
<1>1. f \in Begun
  BY ListsTyped DEF SdkTyped, Approve
<1>2. flows[f] \in ClientIds
  BY <1>1, ListsTyped DEF SdkTyped
<1>3. Approved(f, o) \in GrantRecord
  BY <1>2, SdkAssumption DEF Approved, GrantRecord
<1>4. grants' = Append(grants, Approved(f, o))
  BY DEF Approve, Approved
<1>5. grants' \in Seq(GrantRecord) /\ Len(grants') = Len(grants) + 1
  BY <1>3, <1>4, GrantAdded DEF SdkTyped
<1>6. Len(grants') <= MaxGrant /\ Len(grants) + 1 \in 0..MaxGrant
  BY <1>5, ListsTyped, SdkAssumption DEF Approve, SdkTyped
<1>7. url' \in [Tabs -> 0..MaxGrant]
  BY <1>6 DEF Approve, SdkTyped, SdkTypeOK
<1>8. call' \in [Calls -> CallRecord] /\ \A c \in Calls : Kept(c)
  BY UnheardKeeps DEF Approve, SdkTyped
<1>9. AnswersFit'
  BY <1>8 DEF AnswersFit, Redeeming, Kept, SdkTyped
<1>10. QED
  BY <1>1, <1>3, <1>4, <1>5, <1>6, <1>7, <1>8, <1>9 DEF SdkTyped, SdkTypeOK, Approve

\* A page without pending authorization and code keeps the types.
LEMMA PageTyped ==
    ASSUME SdkTyped, NEW t \in Tabs, Deny(t) \/ CloseTab(t)
    PROVE  SdkTyped' /\ \A c \in Calls : Kept(c)
<1>1. /\ pending' = [pending EXCEPT ![t] = NoPending]
      /\ url' = [url EXCEPT ![t] = 0]
      /\ call' = Unheard(t)
      /\ UNCHANGED <<store, cache, flows, grants, clients, excused>>
  BY DEF Deny, CloseTab
<1>2. /\ pending' \in [Tabs -> [flow : 0..MaxFlow, client : 0..MaxClient]]
      /\ url' \in [Tabs -> 0..MaxGrant]
  BY <1>1, SdkAssumption DEF SdkTyped, SdkTypeOK, NoPending
<1>3. call' \in [Calls -> CallRecord] /\ \A c \in Calls : Kept(c)
  BY <1>1, UnheardKeeps DEF SdkTyped
<1>4. AnswersFit'
  BY <1>3 DEF AnswersFit, Redeeming, Kept, SdkTyped
<1>5. QED
  BY <1>1, <1>2, <1>3, <1>4 DEF SdkTyped, SdkTypeOK

-----------------------------------------------------------------------------
(* Steps that present no credential and touch no grant.                    *)

Settles ==
    /\ UNCHANGED grants
    /\ \A c \in Calls : Kept(c) \/ call'[c].op \notin {"exchange", "refresh"}
    /\ \A t \in Tabs : url'[t] \in {url[t], 0}
    /\ \/ store'.grant = store.grant /\ store'.refresh = store.refresh
       \/ store'.grant = 0 /\ store'.refresh = 0
    /\ excused \subseteq excused'
    /\ \A c \in Calls : call[c].op = "refresh" /\ call[c].srv = "done" =>
          Kept(c) \/ call[c].grant \in excused'

\* Such a step keeps who holds which credential.
LEMMA SettlesKeeps ==
    ASSUME SdkInv, Settles
    PROVE  HeldOnce' /\ ExchangesMatch'
<1>1. Issued' = Issued /\ DOMAIN grants' = DOMAIN grants /\ grants' = grants
  BY DEF Settles, Issued
<1>2. /\ NamesAreIssued /\ CodeHeldOnce /\ TokenHeldOnce /\ OnlyRacesKillGrants
      /\ StoredTokenWorks /\ ExchangesMatch
  BY DEF SdkInv, HeldOnce
<1>3. \A c \in Calls : Redeeming(c)' => Redeeming(c) /\ Kept(c)
  BY DEF Settles, Redeeming, Kept
<1>4. \A c \in Calls : call'[c].op = "exchange" => call[c].op = "exchange" /\ Kept(c)
  BY <1>3 DEF Redeeming, Kept
<1>5. \A c \in Calls : call'[c].op = "refresh" => call[c].op = "refresh" /\ Kept(c)
  BY <1>3 DEF Redeeming, Kept
<1>6. NamesAreIssued'
  BY <1>1, <1>2, <1>3, <1>4, <1>5 DEF NamesAreIssued, Settles, Kept
<1>7. ExchangesMatch'
  BY <1>1, <1>2, <1>4 DEF ExchangesMatch, Kept
<1>8. CodeHeldOnce'
  <2>1. \A t, u \in Tabs : url'[t] # 0 /\ url'[t] = url'[u] => t = u
    BY <1>2 DEF CodeHeldOnce, Settles
  <2>2. \A t \in Tabs, c \in Calls : url'[t] # 0 /\ Redeeming(c)' => call'[c].grant # url'[t]
    BY <1>2, <1>3 DEF CodeHeldOnce, Settles, Kept
  <2>3. \A c, d \in Calls : call'[c].op = "exchange" /\ Redeeming(d)'
                            /\ call'[c].grant = call'[d].grant => c = d
    BY <1>2, <1>3, <1>4 DEF CodeHeldOnce, Kept
  <2>4. \A t \in Tabs : url'[t] # 0 => url'[t] # store'.grant /\ grants'[url'[t]].code = "active"
    BY <1>1, <1>2 DEF CodeHeldOnce, Settles
  <2>5. \A c \in Calls : call'[c].op = "exchange" => call'[c].grant # store'.grant
    BY <1>2, <1>4 DEF CodeHeldOnce, NamesAreIssued, Settles, Kept, Redeeming, Issued
  <2>6. \A c \in Calls : call'[c].op = "exchange" /\ call'[c].srv # "done" =>
            grants'[call'[c].grant].code = "active"
    BY <1>1, <1>2, <1>4 DEF CodeHeldOnce, Kept
  <2>7. \A c \in Calls : call'[c].op = "exchange" /\ call'[c].srv = "done" =>
            call'[c].got = grants'[call'[c].grant].active
    BY <1>1, <1>2, <1>4 DEF CodeHeldOnce, Kept
  <2>8. QED
    BY <2>1, <2>2, <2>3, <2>4, <2>5, <2>6, <2>7 DEF CodeHeldOnce
<1>9. TokenHeldOnce'
  BY <1>1, <1>2, <1>5 DEF TokenHeldOnce, Settles, Kept
<1>10. OnlyRacesKillGrants'
  BY <1>1, <1>2 DEF OnlyRacesKillGrants, Settles
<1>11. StoredTokenWorks'
  BY <1>1, <1>2 DEF StoredTokenWorks, Settles, Kept
<1>12. QED
  BY <1>6, <1>7, <1>8, <1>9, <1>10, <1>11 DEF HeldOnce

\* Pending authorizations that stay or are dropped still fit.
LEMMA FlowsStay ==
    ASSUME FlowsFit, UNCHANGED <<flows, grants>>,
           \A t \in Tabs : pending'[t] \in {pending[t], NoPending}
    PROVE  FlowsFit'
BY DEF FlowsFit, Issued, Begun

\* A new authorization is of the client it was begun with.
LEMMA FlowBegins ==
    ASSUME SdkInv, NEW t, NEW k \in ClientIds, BeginAuthorize(t, k), UNCHANGED grants
    PROVE  FlowsFit'
<1>1. /\ Len(flows') = Len(flows) + 1 /\ Begun' = Begun \cup {Len(flows) + 1}
      /\ flows'[Len(flows) + 1] = k /\ \A f \in Begun : flows'[f] = flows[f]
  BY FlowAdded DEF SdkInv, SdkTyped, BeginAuthorize
<1>2. ASSUME NEW u \in Tabs, pending'[u] # NoPending
      PROVE  pending'[u].flow \in Begun' /\ pending'[u].client = flows'[pending'[u].flow]
  <2>1. CASE pending'[u] = pending[u]
    BY <1>1, <1>2, <2>1 DEF SdkInv, FlowsFit
  <2>2. CASE pending'[u] = [flow |-> Len(flows) + 1, client |-> k]
    BY <1>1, <2>2
  <2>3. QED
    BY <2>1, <2>2 DEF BeginAuthorize, SdkInv, SdkTyped, SdkTypeOK
<1>3. \A g \in Issued' : grants'[g].flow \in Begun' /\ grants'[g].client = flows'[grants'[g].flow]
  BY <1>1 DEF SdkInv, FlowsFit, Issued
<1>4. QED
  BY <1>2, <1>3 DEF FlowsFit

\* connect() takes no code and no token, and may begin a flow.
LEMMA ConnectStep ==
    ASSUME SdkInv, NEW c \in Calls, NEW t \in Tabs, Connect(c, t)
    PROVE  SdkInv'
<1>1. SdkTyped'
  BY ConnectTyped DEF SdkInv
<1>2. FlowsFit'
  <2>1. CASE cache # 0 /\ BeginAuthorize(t, cache)
    BY <2>1, FlowBegins, SdkAssumption DEF Connect, SdkInv, SdkTyped, SdkTypeOK, ClientIds
  <2>2. CASE UNCHANGED <<flows, pending>>
    BY <2>2, FlowsStay DEF Connect, SdkInv
  <2>3. QED
    BY <2>1, <2>2 DEF Connect
<1>3. \A d \in Calls : Kept(d) \/ (call'[d].op = "register" /\ call[d].op = "none")
  <2>1. CASE UNCHANGED call
    BY <2>1 DEF Kept
  <2>2. CASE Send(c, [NoCall EXCEPT !.op = "register", !.tab = t, !.heard = TRUE])
    BY <2>2 DEF Send, Kept, SdkInv, SdkTyped, SdkTypeOK, NoCall
  <2>3. QED
    BY <2>1, <2>2 DEF Connect
<1>4. Settles
  BY <1>3 DEF Settles, Connect
<1>5. QED
  BY <1>1, <1>2, <1>4, SettlesKeeps DEF SdkInv

\* The answer of a registration begins the flow of the client it names.
LEMMA RegisteredStep ==
    ASSUME SdkInv, NEW c \in Calls, Registered(c)
    PROVE  SdkInv'
<1>1. SdkTyped'
  BY RegisteredTyped DEF SdkInv
<1>2. FlowsFit'
  <2>1. call[c].client \in ClientIds
    BY SdkAssumption DEF SdkInv, SdkTyped, SdkTypeOK, AnswersFit, Registered, CallRecord, ClientIds
  <2>2. QED
    BY <2>1, FlowBegins DEF Registered
<1>3. call'[c].op = "none" /\ \A d \in Calls : d # c => call'[d] = call[d]
  BY ReturnTyped DEF Registered, SdkInv
<1>4. Settles
  BY <1>3 DEF Settles, Registered, Kept
<1>5. QED
  BY <1>1, <1>2, <1>4, SettlesKeeps DEF SdkInv

\* A registration at the server touches no grant.
LEMMA ServeRegisterStep ==
    ASSUME SdkInv, NEW c \in Calls, ServeRegister(c)
    PROVE  SdkInv'
<1>1. SdkTyped'
  BY ServeRegisterTyped DEF SdkInv
<1>2. call'[c].op = "register" /\ \A d \in Calls : d # c => call'[d] = call[d]
  BY DEF ServeRegister, SdkInv, SdkTyped, SdkTypeOK, CallRecord
<1>3. Settles
  BY <1>2 DEF Settles, ServeRegister, Kept
<1>4. FlowsFit'
  BY FlowsStay DEF ServeRegister, SdkInv
<1>5. QED
  BY <1>1, <1>3, <1>4, SettlesKeeps DEF SdkInv

\* Calls that end without an answer, except a rotation's.
LEMMA CallEndsStep ==
    ASSUME SdkInv, NEW c \in Calls, ServeLoses(c) \/ ServeRefuses(c) \/ Vanish(c)
    PROVE  SdkInv'
<1>1. Return(c) /\ UNCHANGED <<store, cache, pending, url, flows, grants, clients>>
  BY DEF ServeLoses, ServeRefuses, Vanish
<1>2. call'[c].op = "none" /\ \A d \in Calls : d # c => call'[d] = call[d]
  BY <1>1, ReturnTyped DEF SdkInv
<1>3. SdkTyped'
  <2>1. CASE Vanish(c)
    BY <2>1, VanishTyped DEF SdkInv, HeldOnce
  <2>2. CASE UNCHANGED excused
    BY <1>1, <2>2, ReturnTyped DEF SdkInv, SdkTyped, SdkTypeOK
  <2>3. QED
    BY <2>1, <2>2 DEF ServeLoses, ServeRefuses
<1>4. Settles
  BY <1>1, <1>2 DEF Settles, Kept, ServeLoses, ServeRefuses, Vanish
<1>5. FlowsFit'
  BY <1>1, FlowsStay DEF SdkInv
<1>6. QED
  BY <1>3, <1>4, <1>5, SettlesKeeps DEF SdkInv

\* Pages that go away and answers nobody hears.
LEMMA UnheardStep ==
    ASSUME SdkInv,
           \/ \E c \in Calls : NetworkFails(c)
           \/ \E t \in Tabs : Deny(t) \/ CloseTab(t)
    PROVE  SdkInv'
<1>1. /\ SdkTyped' /\ \A d \in Calls : Kept(d)
      /\ UNCHANGED <<store, flows, grants, excused>>
      /\ \A t \in Tabs : url'[t] \in {url[t], 0} /\ pending'[t] \in {pending[t], NoPending}
  <2>1. CASE \E c \in Calls : NetworkFails(c)
    BY <2>1, NetworkFailsTyped DEF SdkInv, NetworkFails
  <2>2. ASSUME NEW t \in Tabs, Deny(t) \/ CloseTab(t)
        PROVE  /\ SdkTyped' /\ \A d \in Calls : Kept(d)
               /\ UNCHANGED <<store, flows, grants, excused>>
               /\ \A u \in Tabs : url'[u] \in {url[u], 0} /\ pending'[u] \in {pending[u], NoPending}
    BY <2>2, PageTyped DEF SdkInv, SdkTyped, SdkTypeOK, Deny, CloseTab
  <2>3. QED
    BY <2>1, <2>2
<1>2. Settles
  BY <1>1 DEF Settles
<1>3. QED
  BY <1>1, <1>2, FlowsStay, SettlesKeeps DEF SdkInv

\* The store forgets its tokens, or they expire.
LEMMA StoreStep ==
    ASSUME SdkInv, Expire \/ Disconnect
    PROVE  SdkInv'
<1>1. SdkTyped'
  <2>1. store' \in [grant : 0..MaxGrant, refresh : 0..MaxToken, client : 0..MaxClient, fresh : BOOLEAN]
    <3>1. CASE Expire
      BY <3>1 DEF SdkInv, SdkTyped, SdkTypeOK, Expire
    <3>2. CASE Disconnect
      BY <3>2, SdkAssumption DEF Disconnect, NoTokens
    <3>3. QED
      BY <3>1, <3>2
  <2>2. UNCHANGED <<cache, pending, url, call, flows, grants, clients, excused>>
    BY DEF Expire, Disconnect
  <2>3. QED
    BY <2>1, <2>2 DEF SdkInv, SdkTyped, SdkTypeOK, AnswersFit, Redeeming
<1>2. Settles
  BY DEF Settles, Kept, SdkInv, SdkTyped, SdkTypeOK, Expire, Disconnect, NoTokens
<1>3. FlowsFit'
  BY FlowsStay DEF SdkInv, Expire, Disconnect
<1>4. QED
  BY <1>1, <1>2, <1>3, SettlesKeeps DEF SdkInv

-----------------------------------------------------------------------------
(* Steps that present, store or redeem a credential.                       *)

\* The code of the location moves to the call that exchanges it.
LEMMA CallbackStep ==
    ASSUME SdkInv, NEW c \in Calls, NEW t \in Tabs, HandleRedirectCallback(c, t)
    PROVE  SdkInv'
<1>1. SdkTyped'
  BY CallbackTyped DEF SdkInv
<1>2. /\ pending'[t] = NoPending /\ \A u \in Tabs : u # t => pending'[u] = pending[u]
      /\ url[t] # 0 /\ url'[t] = 0 /\ \A u \in Tabs : u # t => url'[u] = url[u]
      /\ UNCHANGED <<store, flows, grants, excused>>
  BY DEF HandleRedirectCallback, ConsumeRedirect, SdkInv, SdkTyped, SdkTypeOK
<1>3. FlowsFit'
  BY <1>2, FlowsStay DEF SdkInv
<1>4. CASE UNCHANGED call
  <2>1. Settles
    BY <1>2, <1>4 DEF Settles, Kept
  <2>2. QED
    BY <1>1, <1>3, <2>1, SettlesKeeps DEF SdkInv
<1>5. CASE ~CallbackRefused(t) /\ SendExchange(c, t, pending[t].client)
  <2>1. /\ call[c].op = "none"
        /\ call'[c].op = "exchange" /\ call'[c].srv = "sent" /\ call'[c].grant = url[t]
        /\ call'[c].refresh = 0 /\ call'[c].client = pending[t].client /\ call'[c].flow = pending[t].flow
        /\ \A d \in Calls : d # c => call'[d] = call[d]
    BY <1>5 DEF SendExchange, Send, NoCall, SdkInv, SdkTyped, SdkTypeOK
  <2>2. /\ NamesAreIssued /\ CodeHeldOnce /\ TokenHeldOnce /\ OnlyRacesKillGrants
        /\ StoredTokenWorks /\ ExchangesMatch /\ FlowsFit
    BY DEF SdkInv, HeldOnce
  <2>3. Issued' = Issued /\ DOMAIN grants' = DOMAIN grants /\ grants' = grants
    BY <1>2 DEF Issued
  <2>4. url[t] \in Issued /\ grants[url[t]].flow = pending[t].flow
        /\ grants[url[t]].client = pending[t].client
    BY <1>2, <1>5, <2>2 DEF NamesAreIssued, CallbackRefused, FlowsFit
  <2>5. ExchangesMatch'
    BY <2>1, <2>2, <2>3, <2>4 DEF ExchangesMatch
  <2>6. NamesAreIssued'
    BY <1>2, <2>1, <2>2, <2>3, <2>4 DEF NamesAreIssued, Redeeming
  <2>7. CodeHeldOnce'
    BY <1>2, <2>1, <2>2, <2>3 DEF CodeHeldOnce, Redeeming
  <2>8. TokenHeldOnce'
    BY <1>2, <2>1, <2>2, <2>3 DEF TokenHeldOnce
  <2>9. OnlyRacesKillGrants' /\ StoredTokenWorks'
    BY <1>2, <2>1, <2>2, <2>3 DEF OnlyRacesKillGrants, StoredTokenWorks
  <2>10. QED
    BY <1>1, <1>3, <2>5, <2>6, <2>7, <2>8, <2>9 DEF SdkInv, HeldOnce
<1>6. QED
  BY <1>4, <1>5 DEF HandleRedirectCallback

\* A refresh presents the stored token; a second one for the same grant
\* excuses it.
LEMMA GetAccessTokenStep ==
    ASSUME SdkInv, NEW c \in Calls, NEW t \in Tabs, GetAccessToken(c, t)
    PROVE  SdkInv'
<1>1. /\ NamesAreIssued /\ CodeHeldOnce /\ TokenHeldOnce /\ OnlyRacesKillGrants
      /\ StoredTokenWorks /\ ExchangesMatch /\ FlowsFit /\ SdkTyped
  BY DEF SdkInv, HeldOnce
<1>2. SdkTyped'
  BY <1>1, GetAccessTokenTyped DEF NamesAreIssued
<1>3. /\ call[c].op = "none" /\ store.refresh # 0
      /\ call'[c].op = "refresh" /\ call'[c].srv = "sent" /\ call'[c].grant = store.grant
      /\ call'[c].refresh = store.refresh
      /\ \A d \in Calls : d # c => call'[d] = call[d]
      /\ UNCHANGED <<store, pending, url, flows, grants>>
  BY <1>1 DEF GetAccessToken, Send, NoCall, SdkTyped, SdkTypeOK
<1>4. /\ excused \subseteq excused'
      /\ (\E d \in Calls : call[d].op = "refresh" /\ call[d].grant = store.grant)
            => store.grant \in excused'
  BY DEF GetAccessToken, Refreshing
<1>5. Issued' = Issued /\ DOMAIN grants' = DOMAIN grants /\ grants' = grants
  BY <1>3 DEF Issued
<1>6. FlowsFit'
  BY <1>1, <1>3, FlowsStay
<1>7. ExchangesMatch'
  BY <1>1, <1>3, <1>5 DEF ExchangesMatch
<1>8. NamesAreIssued'
  BY <1>1, <1>3, <1>5 DEF NamesAreIssued, Redeeming
<1>9. CodeHeldOnce'
  BY <1>1, <1>3, <1>5 DEF CodeHeldOnce, Redeeming
<1>10. TokenHeldOnce'
  <2>1. \A d \in Calls : d # c /\ call'[d].op = "refresh" /\ call'[d].grant = store.grant =>
           store.grant \in excused'
    BY <1>3, <1>4
  <2>2. store.grant \notin excused' => call'[c].refresh = grants'[call'[c].grant].active
    BY <1>1, <1>3, <1>4, <1>5 DEF StoredTokenWorks
  <2>3. QED
    BY <1>1, <1>3, <1>4, <1>5, <2>1, <2>2 DEF TokenHeldOnce
<1>11. OnlyRacesKillGrants' /\ StoredTokenWorks'
  BY <1>1, <1>3, <1>4, <1>5 DEF OnlyRacesKillGrants, StoredTokenWorks
<1>12. QED
  BY <1>2, <1>6, <1>7, <1>8, <1>9, <1>10, <1>11 DEF SdkInv, HeldOnce

\* The tokens of an answer go to the store, and the call is over.
LEMMA TokensArriveStep ==
    ASSUME SdkInv, NEW c \in Calls, TokensArrive(c)
    PROVE  SdkInv'
<1>1. /\ NamesAreIssued /\ CodeHeldOnce /\ TokenHeldOnce /\ OnlyRacesKillGrants
      /\ StoredTokenWorks /\ ExchangesMatch /\ FlowsFit /\ SdkTyped
  BY DEF SdkInv, HeldOnce
<1>2. SdkTyped'
  BY <1>1, TokensArriveTyped
<1>3. call'[c].op = "none" /\ \A d \in Calls : d # c => call'[d] = call[d]
  BY <1>1, ReturnTyped DEF TokensArrive
<1>4. /\ Redeeming(c) /\ call[c].srv = "done" /\ call[c].grant \in Issued
      /\ UNCHANGED <<pending, url, flows, grants, excused>>
      /\ store'.grant = call[c].grant
      /\ store'.refresh = (IF call[c].got # 0 THEN call[c].got ELSE call[c].refresh)
  BY <1>1 DEF TokensArrive, StoredTokens, Redeeming, NamesAreIssued
<1>5. Issued' = Issued /\ DOMAIN grants' = DOMAIN grants /\ grants' = grants
  BY <1>4 DEF Issued
<1>6. FlowsFit'
  BY <1>1, <1>4, FlowsStay
<1>7. ExchangesMatch'
  BY <1>1, <1>3, <1>5 DEF ExchangesMatch
<1>8. NamesAreIssued'
  <2>1. call[c].grant # 0
    BY <1>1, <1>4, ListsTyped DEF Issued, SdkTyped
  <2>2. QED
    BY <1>1, <1>3, <1>4, <1>5, <2>1 DEF NamesAreIssued, Redeeming
<1>9. CodeHeldOnce'
  BY <1>1, <1>3, <1>4, <1>5 DEF CodeHeldOnce, Redeeming
<1>10. TokenHeldOnce' /\ OnlyRacesKillGrants'
  BY <1>1, <1>3, <1>4, <1>5 DEF TokenHeldOnce, OnlyRacesKillGrants
<1>11. StoredTokenWorks'
  <2>1. CASE call[c].op = "refresh"
    BY <1>1, <1>4, <1>5, <2>1 DEF TokenHeldOnce, StoredTokenWorks
  <2>2. CASE call[c].op = "exchange"
    BY <1>1, <1>4, <1>5, <2>2 DEF NamesAreIssued, CodeHeldOnce, StoredTokenWorks
  <2>3. QED
    BY <1>4, <2>1, <2>2 DEF Redeeming
<1>12. QED
  BY <1>2, <1>6, <1>7, <1>8, <1>9, <1>10, <1>11 DEF SdkInv, HeldOnce

\* A grant that changes keeps its authorization and its client.
LEMMA FlowsKept ==
    ASSUME FlowsFit, UNCHANGED <<flows, pending>>, Issued' = Issued,
           \A g \in Issued : grants'[g].flow = grants[g].flow /\ grants'[g].client = grants[g].client
    PROVE  FlowsFit'
BY DEF FlowsFit, Begun

\* A lookup kills a grant only if it is excused: a code is presented once, and
\* the token of a grant that is not excused is the one that works.
LEMMA ReplaysAreExcused ==
    ASSUME SdkInv, NEW c \in Calls, ServeRead(c), Replayed(c)
    PROVE  call[c].op = "refresh" /\ call[c].grant \in excused
<1>1. CodeHeldOnce /\ TokenHeldOnce /\ call[c].srv = "sent"
  BY DEF SdkInv, HeldOnce, ServeRead
<1>2. CASE call[c].op = "exchange"
  BY <1>1, <1>2 DEF CodeHeldOnce, Replayed
<1>3. CASE call[c].op = "refresh"
  BY <1>1, <1>3 DEF TokenHeldOnce, Replayed
<1>4. QED
  BY <1>2, <1>3 DEF Replayed

\* A credential is looked up: a working one stays with its holder, and one
\* that is spent already was presented by an excused grant.
LEMMA ServeReadStep ==
    ASSUME SdkInv, NEW c \in Calls, ServeRead(c)
    PROVE  SdkInv'
<1>1. /\ NamesAreIssued /\ CodeHeldOnce /\ TokenHeldOnce /\ OnlyRacesKillGrants
      /\ StoredTokenWorks /\ ExchangesMatch /\ FlowsFit /\ SdkTyped
  BY DEF SdkInv, HeldOnce
<1>2. SdkTyped'
  BY <1>1, ServeReadTyped
<1>3. /\ call'[c].op = "none"
      \/ /\ call'[c].op = call[c].op /\ call'[c].srv = "read" /\ call'[c].grant = call[c].grant
         /\ call'[c].refresh = call[c].refresh /\ call'[c].client = call[c].client
         /\ call'[c].flow = call[c].flow /\ call'[c].got = call[c].got
  <2>1. CASE Return(c)
    BY <1>1, <2>1, ReturnTyped
  <2>2. CASE call' = [call EXCEPT ![c].srv = "read"]
    BY <1>1, <2>2 DEF SdkTyped, SdkTypeOK, CallRecord
  <2>3. QED
    BY <2>1, <2>2 DEF ServeRead
<1>4. /\ \A d \in Calls : d # c => call'[d] = call[d]
      /\ Redeeming(c) /\ call[c].srv = "sent" /\ call[c].grant \in Issued
      /\ UNCHANGED <<store, pending, url, flows, excused>>
  BY <1>1 DEF ServeRead, Return, SdkTyped, SdkTypeOK, NamesAreIssued, Redeeming
<1>5. /\ Issued' = Issued
      /\ \A g \in Issued :
            \/ grants'[g] = grants[g]
            \/ /\ g = call[c].grant /\ g \in excused /\ call[c].op = "refresh"
               /\ grants'[g].code = grants[g].code /\ grants'[g].active = 0
               /\ grants'[g].flow = grants[g].flow /\ grants'[g].client = grants[g].client
  <2>1. CASE Replayed(c)
    <3> DEFINE g == call[c].grant
               r == [grants[g] EXCEPT !.dead = TRUE, !.active = 0]
    <3>1. r \in GrantRecord /\ grants' = [grants EXCEPT ![g] = r] /\ grants[g] \in GrantRecord
      BY <1>1, <1>4, <2>1, KillChanges, ListsTyped DEF ServeRead, SdkTyped
    <3>2. /\ r.code = grants[g].code /\ r.active = 0
          /\ r.flow = grants[g].flow /\ r.client = grants[g].client
      BY <3>1 DEF GrantRecord
    <3> HIDE DEF r
    <3>3. QED
      BY <1>1, <1>4, <2>1, <3>1, <3>2, GrantChanges, ReplaysAreExcused DEF SdkTyped
  <2>2. CASE ~Replayed(c)
    BY <2>2 DEF ServeRead, Issued
  <2>3. QED
    BY <2>1, <2>2
<1>6. FlowsFit'
  BY <1>1, <1>4, <1>5, FlowsKept
<1>7. ExchangesMatch'
  BY <1>1, <1>3, <1>4, <1>5 DEF ExchangesMatch, NamesAreIssued, Redeeming
<1>8. NamesAreIssued'
  BY <1>1, <1>3, <1>4, <1>5 DEF NamesAreIssued, Redeeming
<1>9. CodeHeldOnce'
  <2>1. \A g \in Issued : grants'[g].code = grants[g].code
    BY <1>5
  <2>2. \A d \in Calls : call'[d].op = "exchange" =>
            call'[d].grant \in Issued /\ grants'[call'[d].grant].active = grants[call'[d].grant].active
    BY <1>1, <1>3, <1>4, <1>5 DEF CodeHeldOnce, NamesAreIssued, Redeeming
  <2>3. \A d \in Calls : Redeeming(d)' => Redeeming(d) /\ call'[d].op = call[d].op
                                          /\ call'[d].grant = call[d].grant
    BY <1>3, <1>4 DEF Redeeming
  <2>4. \A d \in Calls : call'[d].op = "exchange" /\ call'[d].srv = "done" =>
            call[d].srv = "done" /\ call'[d].got = call[d].got
    BY <1>3, <1>4
  <2>5. \A d \in Calls : call'[d].op = "exchange" /\ call'[d].srv # "done" => call[d].srv # "done"
    BY <1>3, <1>4
  <2>6. QED
    BY <1>1, <1>4, <2>1, <2>2, <2>3, <2>4, <2>5 DEF CodeHeldOnce, NamesAreIssued, Redeeming
<1>10. TokenHeldOnce'
  BY <1>1, <1>3, <1>4, <1>5 DEF TokenHeldOnce, NamesAreIssued, Redeeming
<1>11. OnlyRacesKillGrants'
  <2>1. DOMAIN grants = Issued /\ DOMAIN grants' = Issued'
    BY <1>1, <1>2 DEF SdkTyped, SdkTypeOK, Issued
  <2>2. QED
    BY <1>1, <1>4, <1>5, <2>1 DEF OnlyRacesKillGrants
<1>12. StoredTokenWorks'
  BY <1>1, <1>3, <1>4, <1>5 DEF StoredTokenWorks, NamesAreIssued
<1>13. QED
  BY <1>2, <1>6, <1>7, <1>8, <1>9, <1>10, <1>11, <1>12 DEF SdkInv, HeldOnce

\* A credential is spent and its successor issued, to the call that held it.
LEMMA ServeIssueStep ==
    ASSUME SdkInv, NEW c \in Calls, ServeIssue(c)
    PROVE  SdkInv'
<1> DEFINE g == call[c].grant
           n == NextToken(c)
           r == [grants[g] EXCEPT !.code = "used", !.active = n, !.minted = n]
           k == [call[c] EXCEPT !.srv = "done", !.got = n]
<1>1. /\ NamesAreIssued /\ CodeHeldOnce /\ TokenHeldOnce /\ OnlyRacesKillGrants
      /\ StoredTokenWorks /\ ExchangesMatch /\ FlowsFit /\ SdkTyped
  BY DEF SdkInv, HeldOnce
<1>2. SdkTyped'
  BY <1>1, ServeIssueTyped
<1>3. /\ g \in Issued /\ Redeeming(c) /\ call[c].srv = "read" /\ Redeemable(c)
      /\ r \in GrantRecord /\ grants' = [grants EXCEPT ![g] = r]
      /\ k \in CallRecord /\ call' = [call EXCEPT ![c] = k]
      /\ grants[g] \in GrantRecord /\ call[c] \in CallRecord
      /\ UNCHANGED <<store, pending, url, flows, excused>>
  BY <1>1, ServeIssueChanges, ListsTyped DEF ServeIssue, SdkTyped, SdkTypeOK
<1>4. /\ r.code = "used" /\ r.active = n /\ r.flow = grants[g].flow
      /\ r.client = grants[g].client /\ r.offline = grants[g].offline /\ r.dead = grants[g].dead
  BY <1>3 DEF GrantRecord
<1>5. /\ k.op = call[c].op /\ k.srv = "done" /\ k.grant = g /\ k.got = n
      /\ k.refresh = call[c].refresh /\ k.client = call[c].client /\ k.flow = call[c].flow
  BY <1>3 DEF CallRecord
<1>6. n # 0 <=> grants[g].offline
  BY <1>3, SdkAssumption DEF NextToken, GrantRecord
<1> HIDE DEF r, k, n
<1>7. /\ Issued' = Issued /\ grants'[g] = r
      /\ \A h \in Issued : h # g => grants'[h] = grants[h]
  BY <1>1, <1>3, GrantChanges DEF SdkTyped
<1>8. call'[c] = k /\ \A d \in Calls : d # c => call'[d] = call[d]
  BY <1>1, <1>3, OneCall DEF SdkTyped
<1>9. FlowsFit'
  BY <1>1, <1>3, <1>4, <1>7, FlowsKept
<1>10. ExchangesMatch'
  BY <1>1, <1>3, <1>4, <1>5, <1>7, <1>8 DEF ExchangesMatch, NamesAreIssued, Redeeming
<1>11. NamesAreIssued'
  BY <1>1, <1>3, <1>5, <1>7, <1>8 DEF NamesAreIssued, Redeeming
<1>12. /\ \A t \in Tabs : url[t] # 0 => url[t] # g
       /\ \A d \in Calls : d # c /\ call[d].op = "exchange" => call[d].grant # g
       /\ call[c].op = "exchange" => \A d \in Calls : d # c /\ Redeeming(d) => call[d].grant # g
       /\ call[c].op = "exchange" => store.grant # g
  BY <1>1, <1>3 DEF CodeHeldOnce
<1>13. CodeHeldOnce'
  <2>1. \A d \in Calls : Redeeming(d)' => Redeeming(d) /\ call'[d].op = call[d].op
                                          /\ call'[d].grant = call[d].grant
    BY <1>5, <1>8 DEF Redeeming
  <2>2. \A t \in Tabs : url'[t] # 0 => grants'[url'[t]].code = "active"
    BY <1>1, <1>3, <1>7, <1>12 DEF CodeHeldOnce, NamesAreIssued
  <2>3. \A d \in Calls : call'[d].op = "exchange" /\ call'[d].srv # "done" =>
            grants'[call'[d].grant].code = "active"
    BY <1>1, <1>3, <1>5, <1>7, <1>8, <1>12 DEF CodeHeldOnce, NamesAreIssued, Redeeming
  <2>4. \A d \in Calls : call'[d].op = "exchange" /\ call'[d].srv = "done" =>
            call'[d].got = grants'[call'[d].grant].active
    BY <1>1, <1>3, <1>4, <1>5, <1>7, <1>8, <1>12 DEF CodeHeldOnce, NamesAreIssued, Redeeming
  <2>5. QED
    BY <1>1, <1>3, <2>1, <2>2, <2>3, <2>4 DEF CodeHeldOnce, Redeeming
<1>14. TokenHeldOnce'
  <2>1. \A d, e \in Calls : call'[d].op = "refresh" /\ call'[e].op = "refresh"
            /\ call'[d].grant = call'[e].grant /\ call'[d].grant \notin excused' => d = e
    BY <1>1, <1>3, <1>5, <1>8 DEF TokenHeldOnce
  <2>2. call[c].op = "refresh" /\ g \notin excused => n # 0
    <3>1. SUFFICES ASSUME call[c].op = "refresh", g \notin excused PROVE grants[g].active # 0
      BY <1>1, <1>3, <1>6 DEF TokenHeldOnce
    <3>2. QED
      BY <1>1, <1>3, <3>1 DEF TokenHeldOnce, NamesAreIssued
  <2>3. ASSUME NEW d \in Calls, call'[d].op = "refresh", call'[d].grant \notin excused'
        PROVE  IF call'[d].srv = "done" THEN /\ call'[d].got = grants'[call'[d].grant].active
                                             /\ call'[d].got # 0
                                        ELSE call'[d].refresh = grants'[call'[d].grant].active
    <3>1. CASE d = c
      BY <1>3, <1>4, <1>5, <1>7, <1>8, <2>2, <2>3, <3>1
    <3>2. CASE d # c
      <4>1. call[d].op = "refresh" /\ call[d].grant \notin excused /\ call'[d] = call[d]
        BY <1>3, <1>8, <2>3, <3>2
      <4>2. call[d].grant # g
        BY <1>1, <1>3, <1>12, <3>2, <4>1 DEF TokenHeldOnce, Redeeming
      <4>3. QED
        BY <1>1, <1>7, <4>1, <4>2 DEF TokenHeldOnce, NamesAreIssued, Redeeming
    <3>3. QED
      BY <3>1, <3>2
  <2>4. \A h \in Issued' : grants'[h].active # 0 => grants'[h].offline
    BY <1>1, <1>4, <1>6, <1>7 DEF TokenHeldOnce
  <2>5. QED
    BY <2>1, <2>3, <2>4 DEF TokenHeldOnce
<1>15. OnlyRacesKillGrants'
  <2>1. DOMAIN grants = Issued /\ DOMAIN grants' = Issued'
    BY <1>1, <1>2 DEF SdkTyped, SdkTypeOK, Issued
  <2>2. QED
    BY <1>1, <1>3, <1>4, <1>7, <2>1 DEF OnlyRacesKillGrants
<1>16. StoredTokenWorks'
  <2>1. SUFFICES ASSUME store.refresh # 0, store.grant \notin excused
                 PROVE  StoredTokenWorks'
    BY <1>3 DEF StoredTokenWorks
  <2>2. CASE store.grant = g
    <3>1. call'[c].op = "refresh" /\ call'[c].grant = g /\ call'[c].srv = "done"
          /\ call'[c].got = grants'[g].active
      BY <1>3, <1>4, <1>5, <1>7, <1>8, <1>12, <2>2 DEF Redeeming
    <3>2. QED
      BY <1>3, <2>2, <3>1 DEF StoredTokenWorks
  <2>3. CASE store.grant # g
    <3>1. grants'[store.grant] = grants[store.grant]
      BY <1>1, <1>7, <2>1, <2>3 DEF NamesAreIssued
    <3>2. \A d \in Calls : call[d].grant = store.grant => call'[d] = call[d]
      BY <1>8, <2>3
    <3>3. QED
      BY <1>1, <1>3, <2>1, <3>1, <3>2 DEF StoredTokenWorks
  <2>4. QED
    BY <2>2, <2>3
<1>17. QED
  BY <1>2, <1>9, <1>10, <1>11, <1>13, <1>14, <1>15, <1>16 DEF SdkInv, HeldOnce

\* The server spends a credential and issues nothing, which excuses the grant.
LEMMA ServeBreaksOffStep ==
    ASSUME SdkInv, NEW c \in Calls, ServeBreaksOff(c)
    PROVE  SdkInv'
<1> DEFINE g == call[c].grant
           r == [grants[g] EXCEPT !.code = "used", !.active = 0]
<1>1. /\ NamesAreIssued /\ CodeHeldOnce /\ TokenHeldOnce /\ OnlyRacesKillGrants
      /\ StoredTokenWorks /\ ExchangesMatch /\ FlowsFit /\ SdkTyped
  BY DEF SdkInv, HeldOnce
<1>2. SdkTyped'
  BY <1>1, ServeBreaksOffTyped
<1>3. /\ g \in Issued /\ Redeeming(c)
      /\ r \in GrantRecord /\ grants' = [grants EXCEPT ![g] = r]
      /\ grants[g] \in GrantRecord
      /\ UNCHANGED <<store, pending, url, flows>>
      /\ excused' = excused \cup {g}
  BY <1>1, ServeBreaksOffChanges, ListsTyped DEF ServeBreaksOff, SdkTyped, AnswersFit
<1>4. /\ r.active = 0 /\ r.flow = grants[g].flow
      /\ r.client = grants[g].client /\ r.dead = grants[g].dead
  BY <1>3 DEF GrantRecord
<1> HIDE DEF r
<1>5. /\ Issued' = Issued /\ grants'[g] = r
      /\ \A h \in Issued : h # g => grants'[h] = grants[h]
  BY <1>1, <1>3, GrantChanges DEF SdkTyped
<1>6. call'[c].op = "none" /\ \A d \in Calls : d # c => call'[d] = call[d]
  BY <1>1, ReturnTyped DEF ServeBreaksOff
<1>7. FlowsFit'
  BY <1>1, <1>3, <1>4, <1>5, FlowsKept
<1>8. ExchangesMatch'
  BY <1>1, <1>3, <1>4, <1>5, <1>6 DEF ExchangesMatch, NamesAreIssued, Redeeming
<1>9. NamesAreIssued'
  BY <1>1, <1>3, <1>5, <1>6 DEF NamesAreIssued, Redeeming
<1>10. /\ \A t \in Tabs : url[t] # 0 => url[t] # g
       /\ \A d \in Calls : d # c /\ call[d].op = "exchange" => call[d].grant # g
  BY <1>1, <1>3 DEF CodeHeldOnce
<1>11. CodeHeldOnce'
  <2>1. \A t \in Tabs : url'[t] # 0 => grants'[url'[t]].code = "active"
    BY <1>1, <1>3, <1>5, <1>10 DEF CodeHeldOnce, NamesAreIssued
  <2>2. \A d \in Calls : call'[d].op = "exchange" =>
            call'[d] = call[d] /\ grants'[call[d].grant] = grants[call[d].grant]
    BY <1>1, <1>5, <1>6, <1>10 DEF NamesAreIssued, Redeeming
  <2>3. \A d \in Calls : Redeeming(d)' => Redeeming(d) /\ call'[d] = call[d]
    BY <1>6 DEF Redeeming
  <2>4. QED
    BY <1>1, <1>3, <2>1, <2>2, <2>3 DEF CodeHeldOnce, Redeeming
<1>12. TokenHeldOnce'
  <2>1. \A d \in Calls : call'[d].op = "refresh" /\ call'[d].grant \notin excused' =>
            /\ call'[d] = call[d] /\ call[d].grant \notin excused
            /\ grants'[call[d].grant] = grants[call[d].grant]
    BY <1>1, <1>3, <1>5, <1>6 DEF NamesAreIssued, Redeeming
  <2>2. \A h \in Issued' : grants'[h].active # 0 => grants'[h].offline
    BY <1>1, <1>4, <1>5 DEF TokenHeldOnce
  <2>3. QED
    BY <1>1, <2>1, <2>2, <1>6 DEF TokenHeldOnce
<1>13. OnlyRacesKillGrants'
  <2>1. DOMAIN grants = Issued /\ DOMAIN grants' = Issued'
    BY <1>1, <1>2 DEF SdkTyped, SdkTypeOK, Issued
  <2>2. QED
    BY <1>1, <1>3, <1>4, <1>5, <2>1 DEF OnlyRacesKillGrants
<1>14. StoredTokenWorks'
  <2>1. SUFFICES ASSUME store.refresh # 0, store.grant \notin excused, store.grant # g
                 PROVE  StoredTokenWorks'
    BY <1>3 DEF StoredTokenWorks
  <2>2. grants'[store.grant] = grants[store.grant]
    BY <1>1, <1>5, <2>1 DEF NamesAreIssued
  <2>3. \A d \in Calls : call[d].grant = store.grant => call'[d] = call[d]
    BY <1>6, <2>1
  <2>4. QED
    BY <1>1, <1>3, <2>1, <2>2, <2>3 DEF StoredTokenWorks
<1>15. QED
  BY <1>2, <1>7, <1>8, <1>9, <1>11, <1>12, <1>13, <1>14 DEF SdkInv, HeldOnce

\* A new grant has its code in one location and no token anywhere.
LEMMA ApproveStep ==
    ASSUME SdkInv, NEW t \in Tabs, NEW f \in FlowIds, NEW o \in BOOLEAN, Approve(t, f, o)
    PROVE  SdkInv'
<1> DEFINE g == Len(grants) + 1
<1>1. /\ NamesAreIssued /\ CodeHeldOnce /\ TokenHeldOnce /\ OnlyRacesKillGrants
      /\ StoredTokenWorks /\ ExchangesMatch /\ FlowsFit /\ SdkTyped
  BY DEF SdkInv, HeldOnce
<1>2. /\ SdkTyped' /\ f \in Begun /\ \A c \in Calls : Kept(c)
      /\ Issued' = Issued \cup {g} /\ g \notin Issued /\ grants'[g] = Approved(f, o)
      /\ \A h \in Issued : grants'[h] = grants[h]
  BY <1>1, ApproveTyped, GrantAdded DEF SdkTyped
<1>3. /\ url'[t] = g /\ (\A u \in Tabs : u # t => url'[u] = url[u]) /\ g # 0
      /\ UNCHANGED <<store, pending, flows, excused>>
  BY <1>1, ListsTyped DEF Approve, SdkTyped, SdkTypeOK
<1> HIDE DEF g
<1>4. /\ \A c \in Calls : Redeeming(c) => call[c].grant \in Issued /\ call[c].grant # g
      /\ store.grant # g
      /\ \A u \in Tabs : url[u] # 0 => url[u] \in Issued /\ url[u] # g
  BY <1>1, <1>2, <1>3 DEF NamesAreIssued
<1>5. \A c \in Calls : Redeeming(c)' <=> Redeeming(c)
  BY <1>2 DEF Redeeming, Kept
<1>6. FlowsFit'
  BY <1>1, <1>2, <1>3 DEF FlowsFit, Begun, Approved
<1>7. ExchangesMatch'
  BY <1>1, <1>2, <1>4 DEF ExchangesMatch, Kept, Redeeming
<1>8. NamesAreIssued'
  BY <1>1, <1>2, <1>3, <1>5 DEF NamesAreIssued, Kept
<1>9. CodeHeldOnce'
  <2>1. \A u, v \in Tabs : url'[u] # 0 /\ url'[u] = url'[v] => u = v
    BY <1>1, <1>3, <1>4 DEF CodeHeldOnce
  <2>2. \A u \in Tabs, c \in Calls : url'[u] # 0 /\ Redeeming(c)' => call'[c].grant # url'[u]
    BY <1>1, <1>2, <1>3, <1>4, <1>5 DEF CodeHeldOnce, Kept
  <2>3. \A u \in Tabs : url'[u] # 0 => url'[u] # store'.grant /\ grants'[url'[u]].code = "active"
    BY <1>1, <1>2, <1>3, <1>4 DEF CodeHeldOnce, Approved
  <2>4. \A c \in Calls : call'[c].op = "exchange" =>
            call[c].op = "exchange" /\ grants'[call'[c].grant] = grants[call[c].grant]
    BY <1>2, <1>4 DEF Kept, Redeeming
  <2>5. QED
    BY <1>1, <1>2, <1>3, <1>5, <2>1, <2>2, <2>3, <2>4 DEF CodeHeldOnce, Kept
<1>10. TokenHeldOnce'
  BY <1>1, <1>2, <1>3, <1>4 DEF TokenHeldOnce, Kept, Approved, Redeeming
<1>11. OnlyRacesKillGrants'
  <2>1. DOMAIN grants = Issued /\ DOMAIN grants' = Issued'
    BY <1>1, <1>2 DEF SdkTyped, SdkTypeOK, Issued
  <2>2. QED
    BY <1>1, <1>2, <1>3, <2>1 DEF OnlyRacesKillGrants, Approved
<1>12. StoredTokenWorks'
  BY <1>1, <1>2, <1>3 DEF StoredTokenWorks, NamesAreIssued, Kept
<1>13. QED
  BY <1>2, <1>6, <1>7, <1>8, <1>9, <1>10, <1>11, <1>12 DEF SdkInv, HeldOnce

-----------------------------------------------------------------------------
(* The theorems.                                                           *)

\* Nothing is issued, held or stored at first.
LEMMA InitSdk == SdkInit => SdkInv
<1>1. SUFFICES ASSUME SdkInit PROVE SdkInv
  OBVIOUS
<1>2. SdkTyped
  BY <1>1, InitSdkTyped
<1>3. /\ Issued = {} /\ \A c \in Calls : call[c].op = "none"
      /\ \A t \in Tabs : url[t] = 0 /\ pending[t] = NoPending
      /\ store.grant = 0 /\ store.refresh = 0 /\ DOMAIN grants = {}
  BY <1>1 DEF SdkInit, Issued, NoCall, NoTokens
<1>4. FlowsFit /\ ExchangesMatch
  BY <1>3 DEF FlowsFit, ExchangesMatch
<1>5. HeldOnce
  BY <1>3 DEF HeldOnce, NamesAreIssued, CodeHeldOnce, TokenHeldOnce, OnlyRacesKillGrants,
              StoredTokenWorks, Redeeming
<1>6. QED
  BY <1>2, <1>4, <1>5 DEF SdkInv

\* The invariant is inductive.
THEOREM SdkInductive == SdkSpec => []SdkInv
<1>1. SdkInv /\ [SdkNext]_sdkVars => SdkInv'
  <2>1. SUFFICES ASSUME SdkInv, [SdkNext]_sdkVars PROVE SdkInv'
    OBVIOUS
  <2>2. ASSUME NEW c \in Calls, Client(c) PROVE SdkInv'
    BY <2>1, <2>2, ConnectStep, CallbackStep, GetAccessTokenStep, RegisteredStep, TokensArriveStep
       DEF Client
  <2>3. ASSUME NEW c \in Calls, Serve(c) PROVE SdkInv'
    BY <2>1, <2>3, ServeRegisterStep, ServeReadStep, ServeIssueStep, ServeBreaksOffStep, CallEndsStep
       DEF Serve
  <2>4. ASSUME NEW c \in Calls, NetworkFails(c) \/ Vanish(c) PROVE SdkInv'
    BY <2>1, <2>4, UnheardStep, CallEndsStep
  <2>5. ASSUME NEW t \in Tabs, User(t) PROVE SdkInv'
    BY <2>1, <2>5, ApproveStep, UnheardStep DEF User
  <2>6. CASE Expire \/ Disconnect
    BY <2>1, <2>6, StoreStep
  <2>7. CASE UNCHANGED sdkVars
    BY <2>1, <2>7 DEF sdkVars, SdkInv, SdkTyped, SdkTypeOK, AnswersFit, FlowsFit, ExchangesMatch,
       HeldOnce, NamesAreIssued, CodeHeldOnce, TokenHeldOnce, OnlyRacesKillGrants, StoredTokenWorks,
       Issued, Begun, Redeeming
  <2>8. QED
    BY <2>1, <2>2, <2>3, <2>4, <2>5, <2>6, <2>7 DEF SdkNext
<1>2. QED
  BY InitSdk, <1>1, PTL DEF SdkSpec

\* The types of the SDK's storage, calls and grants.
THEOREM SdkTypeCorrect == SdkSpec => []SdkTypeOK
<1>1. SdkInv => SdkTypeOK
  BY DEF SdkInv, SdkTyped
<1>2. QED
  BY <1>1, SdkInductive, PTL

\* However many tabs, calls and clients there are, a code is exchanged with
\* the verifier and the client of the connect() it answers.
THEOREM ExchangesAreTheirs == SdkSpec => []ExchangesMatch
<1>1. SdkInv => ExchangesMatch
  BY DEF SdkInv
<1>2. QED
  BY <1>1, SdkInductive, PTL

\* The stored refresh token is the one the server accepts, or its successor
\* is on its way, unless refreshes raced or an answer was lost.
THEOREM StoredTokensWork == SdkSpec => []StoredTokenWorks
<1>1. SdkInv => StoredTokenWorks
  BY DEF SdkInv, HeldOnce
<1>2. QED
  BY <1>1, SdkInductive, PTL

\* The server's reuse detection revokes a grant only after two refreshes of
\* it overlapped or an answer was lost.
THEOREM OnlyRacesKill == SdkSpec => []OnlyRacesKillGrants
<1>1. SdkInv => OnlyRacesKillGrants
  BY DEF SdkInv, HeldOnce
<1>2. QED
  BY <1>1, SdkInductive, PTL
=============================================================================
