------------------------ MODULE RefreshTokensProofs ------------------------
(***************************************************************************)
(* Theorems about RefreshTokens, for any workers, sessions, keys and       *)
(* bounds.  The heart is OneChain: while the refreshes of a session do not *)
(* overlap, the handler that has decided to rotate holds the only live     *)
(* token a client has, and from its mark to its answer there is none.      *)
(***************************************************************************)
EXTENDS RefreshTokens, TLAPS

Issued   == {"session", "discard", "persist"}
Rotating == Issued \cup {"issue"}

\* Where the tokens in use come from.
Provenance ==
    /\ loggedOut \subseteq begun
    /\ \A t \in 1 .. issued : family[t] \in begun
    /\ \A t \in Tokens \ delivered : rotations[t] = 0
    /\ \A t \in Tokens : t > issued => token[t] = "absent"
    /\ \A w \in Workers : pc[w] # "idle" => presented[w] \in delivered
    /\ \A w \in Workers : pc[w] \in Issued =>
          fresh[w] \in 1 .. issued /\ fresh[w] \notin delivered /\ family[fresh[w]] = Sid(w)
    /\ \A v, w \in Workers :
          pc[v] \in Issued /\ pc[w] \in Issued /\ fresh[v] = fresh[w] => v = w

Busy(w)    == pc[w] # "idle" /\ Sid(w) \notin excused
LiveOut(s) == {t \in delivered : family[t] = s /\ token[t] = "live"}

Alone == \A v, w \in Workers : Busy(v) /\ Busy(w) /\ Sid(v) = Sid(w) => v = w

\* What a handler may rely on at each of its awaits.
Holds(w) ==
    /\ pc[w] = "read" => token[presented[w]] # "compromised"
    /\ pc[w] = "write" /\ seen[w] # "used" =>
          LiveOut(Sid(w)) \subseteq {presented[w]} /\ rotations[presented[w]] = 0
    /\ pc[w] \in Rotating => LiveOut(Sid(w)) = {} /\ rotations[presented[w]] = 0

OneChain ==
    /\ \A w \in Workers : Busy(w) => Holds(w)
    /\ \A t \in Tokens : family[t] \notin excused /\ token[t] = "live" => rotations[t] = 0

TypeInv == TypeOK /\ Provenance

ChainInv == TypeInv /\ Alone /\ OneChain /\ OneLiveToken

-----------------------------------------------------------------------------
(* Types and provenance *)

\* Tokens are numbered from 1, so that 0 is none of them; handlers that rotate
\* are busy.
LEMMA TokensType == MaxTokens \in Nat /\ Tokens \subseteq Nat \ {0}
  BY BoundAssumption DEF Tokens

LEMMA TypeInit == Init => TypeInv
  BY TokensType DEF Init, TypeInv, TypeOK, Provenance, States, Tokens, Issued

LEMMA TypeStep == TypeInv /\ [Next]_vars => TypeInv'
<1> SUFFICES ASSUME TypeInv, [Next]_vars PROVE TypeInv'
  OBVIOUS
<1> USE TokensType, KeyAssumption
    DEF TypeInv, TypeOK, Provenance, Tokens, States, Issued, Sid, Goto, handler, history
<1>1. ASSUME NEW w \in Workers, NEW s \in Sids, Login(w, s) PROVE TypeInv'
  <2>1. KeyOf[w] \in Keys
    OBVIOUS
  <2>2. TypeOK'
    BY <1>1, <2>1 DEF Login, NewToken
  <2> QED BY <1>1, <2>2 DEF Login, NewToken
<1>2. ASSUME NEW s \in Sids, Logout(s) \/ ExpireSession(s) PROVE TypeInv'
  <2>1. CASE Logout(s)
    <3>1. revived' \subseteq Sids
      BY <2>1 DEF Logout
    <3> QED BY <2>1, <3>1 DEF Logout
  <2>2. CASE ExpireSession(s)
    BY <2>2 DEF ExpireSession
  <2> QED BY <1>2, <2>1, <2>2
<1>3. ASSUME NEW t \in 1 .. issued, ExpireToken(t) PROVE TypeInv'
  BY <1>3 DEF ExpireToken
<1>4. ASSUME NEW w \in Workers, NEW t \in delivered, Present(w, t) PROVE TypeInv'
  BY <1>4 DEF Present
<1>5. ASSUME NEW w \in Workers, ReadToken(w) PROVE TypeInv'
  BY <1>5 DEF ReadToken
<1>6. ASSUME NEW w \in Workers, BurnToken(w) \/ MarkUsed(w) PROVE TypeInv'
  <2>1. presented[w] \in 1 .. issued
    BY <1>6 DEF BurnToken, MarkUsed
  <2>2. CASE BurnToken(w)
    BY <2>1, <2>2 DEF BurnToken
  <2>3. CASE MarkUsed(w)
    BY <2>1, <2>3 DEF MarkUsed
  <2> QED BY <1>6, <2>2, <2>3
<1>7. ASSUME NEW w \in Workers, IssueNext(w) PROVE TypeInv'
  <2>1. TypeOK'
    BY <1>7 DEF IssueNext, NewToken
  <2> QED BY <1>7, <2>1 DEF IssueNext, NewToken
<1>8. ASSUME NEW w \in Workers, ReadSession(w) \/ DiscardSession(w) \/ Fail(w) PROVE TypeInv'
  <2>1. CASE ReadSession(w)
    BY <2>1 DEF ReadSession
  <2>2. CASE DiscardSession(w)
    BY <2>2 DEF DiscardSession
  <2>3. CASE Fail(w)
    BY <2>3 DEF Fail
  <2> QED BY <1>8, <2>1, <2>2, <2>3
<1>9. ASSUME NEW w \in Workers, PersistSession(w) PROVE TypeInv'
  <2>1. KeyOf[w] \in Keys /\ fresh[w] \in 1 .. issued /\ presented[w] \in 1 .. issued
    BY <1>9 DEF PersistSession
  <2>2. delivered' \subseteq 1 .. issued
    BY <1>9, <2>1 DEF PersistSession
  <2>3. TypeOK'
    BY <1>9, <2>1, <2>2 DEF PersistSession
  <2>4. Provenance'
    <3>1. \A t \in Tokens \ delivered' : rotations'[t] = rotations[t] /\ t \notin delivered
      BY <1>9, <2>1 DEF PersistSession
    <3>2. \A v \in Workers : pc'[v] # "idle" => v # w /\ pc[v] # "idle"
      BY <1>9 DEF PersistSession
    <3>3. \A v \in Workers : pc'[v] \in Issued => pc[v] \in Issued /\ fresh[v] \notin delivered'
      BY <1>9, <3>2 DEF PersistSession
    <3>4. /\ UNCHANGED <<token, family, issued, presented, fresh, begun, loggedOut>>
          /\ delivered \subseteq delivered'
      BY <1>9 DEF PersistSession
    <3> QED BY <3>1, <3>2, <3>3, <3>4
  <2> QED BY <2>3, <2>4
<1>10. CASE UNCHANGED vars
  BY <1>10 DEF vars
<1> QED
  BY <1>1, <1>2, <1>3, <1>4, <1>5, <1>6, <1>7, <1>8, <1>9, <1>10 DEF Next, Step

\* Every variable keeps its type; what clients hold are issued tokens.
THEOREM TypeCorrect == Spec => []TypeOK
<1>1. TypeInv => TypeOK
  BY DEF TypeInv
<1> QED
  BY <1>1, TypeInit, TypeStep, PTL DEF Spec

-----------------------------------------------------------------------------
(* Logout *)

LogoutInv == TypeInv /\ LogoutIsFinal

LEMMA LogoutStep == LogoutInv /\ [Next]_vars => LogoutInv'
<1> SUFFICES ASSUME LogoutInv, [Next]_vars PROVE LogoutIsFinal'
  BY TypeStep DEF LogoutInv
<1> USE TokensType, KeyAssumption
    DEF LogoutInv, TypeInv, TypeOK, Provenance, LogoutIsFinal, InFlight, Tokens, Sid,
        Goto, handler, history
<1>1. ASSUME NEW w \in Workers, NEW s \in Sids, Login(w, s) PROVE LogoutIsFinal'
  BY <1>1 DEF Login, NewToken
<1>2. ASSUME NEW s \in Sids, Logout(s) \/ ExpireSession(s) PROVE LogoutIsFinal'
  BY <1>2 DEF Logout, ExpireSession
<1>3. ASSUME NEW t \in 1 .. issued, ExpireToken(t) PROVE LogoutIsFinal'
  BY <1>3 DEF ExpireToken
<1>4. ASSUME NEW w \in Workers, NEW t \in delivered, Present(w, t) PROVE LogoutIsFinal'
  BY <1>4 DEF Present
<1>5. ASSUME NEW w \in Workers, ReadToken(w) \/ BurnToken(w) \/ MarkUsed(w) \/ Fail(w)
      PROVE LogoutIsFinal'
  BY <1>5 DEF ReadToken, BurnToken, MarkUsed, Fail
<1>6. ASSUME NEW w \in Workers, IssueNext(w) PROVE LogoutIsFinal'
  BY <1>6 DEF IssueNext, NewToken
<1>7. ASSUME NEW w \in Workers, ReadSession(w) \/ DiscardSession(w) PROVE LogoutIsFinal'
  <2>1. CASE ReadSession(w)
    BY <2>1 DEF ReadSession
  <2>2. CASE DiscardSession(w)
    BY <2>2 DEF DiscardSession
  <2> QED BY <1>7, <2>1, <2>2
<1>8. ASSUME NEW w \in Workers, PersistSession(w) PROVE LogoutIsFinal'
  <2>1. Sid(w) \notin loggedOut \ revived
    BY <1>8 DEF PersistSession
  <2> QED BY <1>8, <2>1 DEF PersistSession
<1>9. CASE UNCHANGED vars
  BY <1>9 DEF vars
<1> QED
  BY <1>1, <1>2, <1>3, <1>4, <1>5, <1>6, <1>7, <1>8, <1>9 DEF Next, Step

\* A logout ends the session and its refreshes for good, save for a refresh that
\* had already read the session.
THEOREM LogoutEnds == Spec => []LogoutIsFinal
<1>1. Init => LogoutInv
  BY TypeInit DEF Init, LogoutInv, LogoutIsFinal
<1>2. LogoutInv => LogoutIsFinal
  BY DEF LogoutInv
<1> QED
  BY <1>1, <1>2, LogoutStep, PTL DEF Spec

-----------------------------------------------------------------------------
(* One chain of tokens *)

\* A handler that a step leaves where it is keeps what it relies on, if no token
\* of its session becomes live in a client's hands and its own is not burnt.
LEMMA Undisturbed ==
  ASSUME NEW v \in Workers, Holds(v),
         UNCHANGED <<pc[v], presented[v], seen[v], Sid(v), rotations[presented[v]]>>,
         LiveOut(Sid(v))' \subseteq LiveOut(Sid(v)),
         pc[v] = "read" => token'[presented[v]] \in {token[presented[v]], "absent", "used"}
  PROVE  Holds(v)'
  BY DEF Holds

LEMMA SameTokens ==
  ASSUME OneLiveToken, UNCHANGED <<token, family, delivered, rotations, excused>>
  PROVE  OneLiveToken'
  BY DEF OneLiveToken

LEMMA Frame ==
  ASSUME Alone, OneChain, OneLiveToken,
         UNCHANGED <<token, family, pc, presented, seen, delivered, rotations, excused>>
  PROVE  Alone' /\ OneChain' /\ OneLiveToken'
  BY DEF Alone, OneChain, OneLiveToken, Busy, Holds, LiveOut, Sid

LEMMA ChainStep == ChainInv /\ [Next]_vars => ChainInv'
<1> SUFFICES ASSUME ChainInv, [Next]_vars
             PROVE Alone' /\ OneChain' /\ OneLiveToken'
  BY TypeStep DEF ChainInv
<1> USE TokensType
    DEF ChainInv, TypeInv, TypeOK, Provenance, Alone, OneLiveToken,
        Busy, Issued, Sid, Tokens, States, Goto, handler, history
<1>0. /\ \A w \in Workers : Busy(w) => Holds(w)
      /\ \A w \in Workers : Busy(w) => presented[w] \in delivered /\ presented[w] \in Tokens
      /\ \A s \in Sids, t \in Tokens :
            t \in LiveOut(s) <=> t \in delivered /\ family[t] = s /\ token[t] = "live"
      /\ \A t \in delivered : t \in Tokens /\ family[t] \in Sids
  <2>1. \A t \in delivered : t \in Tokens /\ family[t] \in Sids
    OBVIOUS
  <2>2. \A w \in Workers : Busy(w) => Holds(w)
    BY DEF OneChain
  <2>3. \A w \in Workers : Busy(w) => presented[w] \in delivered /\ presented[w] \in Tokens
    BY <2>1
  <2>4. \A s \in Sids, t \in Tokens :
            t \in LiveOut(s) <=> t \in delivered /\ family[t] = s /\ token[t] = "live"
    BY DEF LiveOut
  <2> QED BY <2>1, <2>2, <2>3, <2>4
<1>1. ASSUME NEW w \in Workers, NEW s \in Sids, Login(w, s)
      PROVE Alone' /\ OneChain' /\ OneLiveToken'
  <2>1. /\ issued + 1 \in Tokens /\ issued + 1 \notin delivered /\ s \notin begun
        /\ token' = [token EXCEPT ![issued + 1] = "live"]
        /\ family' = [family EXCEPT ![issued + 1] = s]
        /\ delivered' = delivered \cup {issued + 1}
        /\ rotations[issued + 1] = 0
        /\ UNCHANGED <<pc, presented, seen, fresh, rotations, excused>>
    BY <1>1 DEF Login, NewToken
  <2>2. /\ \A t \in delivered : family'[t] = family[t] /\ token'[t] = token[t] /\ family[t] # s
        /\ \A v \in Workers : Busy(v)' => Busy(v) /\ Sid(v)' = Sid(v) /\ Sid(v) # s
    BY <2>1
  <2>3. Alone'
    BY <2>1, <2>2
  <2>4. ASSUME NEW v \in Workers, Busy(v)' PROVE Holds(v)'
    <3>1. LiveOut(Sid(v))' = LiveOut(Sid(v))
      BY <2>1, <2>2, <2>4 DEF LiveOut
    <3> QED BY <1>0, <2>1, <2>2, <2>4, <3>1, Undisturbed
  <2>5. OneChain'
    BY <2>1, <2>4 DEF OneChain
  <2>6. OneLiveToken'
    BY <2>1, <2>2
  <2> QED BY <2>3, <2>5, <2>6
<1>2. ASSUME NEW s \in Sids, Logout(s) \/ ExpireSession(s)
      PROVE Alone' /\ OneChain' /\ OneLiveToken'
  BY <1>2, Frame DEF Logout, ExpireSession
<1>3. ASSUME NEW t \in 1 .. issued, ExpireToken(t)
      PROVE Alone' /\ OneChain' /\ OneLiveToken'
  BY <1>3 DEF ExpireToken, OneChain, Holds, LiveOut, Rotating
<1>4. ASSUME NEW w \in Workers, NEW t \in delivered, Present(w, t)
      PROVE Alone' /\ OneChain' /\ OneLiveToken'
  <2>1. /\ pc[w] = "idle" /\ pc' = [pc EXCEPT ![w] = "read"]
        /\ presented' = [presented EXCEPT ![w] = t]
        /\ excused \subseteq excused' /\ excused' \subseteq Sids
        /\ InFlight(family[t]) # {} \/ token[t] = "compromised" => family[t] \in excused'
        /\ UNCHANGED <<token, family, seen, delivered, rotations>>
    BY <1>4 DEF Present
  <2>2. Busy(w)' => Holds(w)'
    BY <2>1 DEF Holds, Rotating
  <2>3. ASSUME NEW v \in Workers, v # w, Busy(v)' PROVE Holds(v)' /\ Busy(v) /\ Sid(v)' = Sid(v)
    <3>1. Busy(v) /\ Sid(v)' = Sid(v)
      BY <2>1, <2>3
    <3>2. LiveOut(Sid(v))' = LiveOut(Sid(v))
      BY <2>1, <3>1 DEF LiveOut
    <3>3. Holds(v) /\ pc'[v] = pc[v] /\ presented'[v] = presented[v]
      BY <1>0, <2>1, <2>3, <3>1
    <3>4. Holds(v)'
      BY <2>1, <3>1, <3>2, <3>3 DEF Holds
    <3> QED BY <3>1, <3>4
  <2>4. Alone'
    <3>1. ASSUME NEW v \in Workers, v # w, Busy(v)', Busy(w)' PROVE Sid(v)' # Sid(w)'
      BY <2>1, <2>3, <3>1 DEF InFlight
    <3> QED BY <2>3, <3>1
  <2>5. OneChain'
    BY <2>1, <2>2, <2>3 DEF OneChain
  <2>6. OneLiveToken'
    BY <2>1
  <2> QED BY <2>4, <2>5, <2>6
<1>5. ASSUME NEW w \in Workers, ReadToken(w)
      PROVE Alone' /\ OneChain' /\ OneLiveToken'
  <2>1. /\ pc[w] = "read" /\ pc'[w] \in {"idle", "write"}
        /\ seen'[w] = token[presented[w]]
        /\ \A v \in Workers \ {w} : pc'[v] = pc[v] /\ seen'[v] = seen[v]
        /\ UNCHANGED <<token, family, presented, delivered, rotations, excused>>
    BY <1>5 DEF ReadToken
  <2>2. ASSUME Busy(w)' PROVE Holds(w)'
    <3>1. Busy(w) /\ token[presented[w]] # "compromised" /\ Sid(w) \in Sids \ excused
      BY <1>0, <2>1, <2>2 DEF Holds
    <3>2. CASE token[presented[w]] = "live"
      <4>1. \A t \in delivered : family[t] = Sid(w) /\ token[t] = "live" => t = presented[w]
        BY <1>0, <3>1, <3>2
      <4>2. rotations[presented[w]] = 0
        BY <1>0, <3>1, <3>2 DEF OneChain
      <4> QED BY <2>1, <2>2, <4>1, <4>2 DEF Holds, LiveOut, Rotating
    <3>3. CASE token[presented[w]] # "live"
      <4>1. token[presented[w]] = "used" \/ token[presented[w]] = "absent"
        BY <1>0, <3>1, <3>3
      <4>2. pc'[w] = IF token[presented[w]] = "absent" THEN "idle" ELSE "write"
        BY <1>5 DEF ReadToken
      <4> QED BY <2>1, <2>2, <4>1, <4>2 DEF Holds, Rotating
    <3> QED BY <3>2, <3>3
  <2>3. ASSUME NEW v \in Workers, v # w, Busy(v)' PROVE Holds(v)'
    BY <1>0, <2>1, <2>3, Undisturbed DEF LiveOut
  <2>4. Alone'
    BY <2>1
  <2>5. OneChain'
    BY <2>1, <2>2, <2>3 DEF OneChain
  <2>6. OneLiveToken'
    <3> HIDE DEF OneLiveToken
    <3> QED BY <2>1, SameTokens
  <2> QED BY <2>4, <2>5, <2>6
<1>6. ASSUME NEW w \in Workers, BurnToken(w)
      PROVE Alone' /\ OneChain' /\ OneLiveToken'
  <2>1. /\ token' = [token EXCEPT ![presented[w]] = "compromised"]
        /\ pc' = [pc EXCEPT ![w] = "idle"] /\ pc[w] # "idle"
        /\ UNCHANGED <<family, presented, seen, delivered, rotations, excused>>
    BY <1>6 DEF BurnToken
  <2>2. ASSUME NEW v \in Workers, Busy(v)' PROVE Holds(v)'
    <3>1. v # w /\ Busy(v) /\ presented[v] # presented[w]
      BY <2>1, <2>2
    <3>2. LiveOut(Sid(v))' \subseteq LiveOut(Sid(v))
      BY <1>0, <2>1 DEF LiveOut
    <3> QED BY <1>0, <2>1, <3>1, <3>2, Undisturbed
  <2>3. \A t \in Tokens : token'[t] = "live" => token[t] = "live"
    BY <2>1
  <2> QED BY <2>1, <2>2, <2>3 DEF OneChain
<1>7. ASSUME NEW w \in Workers, MarkUsed(w)
      PROVE Alone' /\ OneChain' /\ OneLiveToken'
  <2>1. /\ pc[w] = "write" /\ seen[w] # "used" /\ presented[w] \in delivered
        /\ token' = [token EXCEPT ![presented[w]] = "used"]
        /\ pc' = [pc EXCEPT ![w] = "issue"]
        /\ UNCHANGED <<family, presented, seen, delivered, rotations, excused>>
    BY <1>7 DEF MarkUsed
  <2>2. \A t \in Tokens : token'[t] = "live" => token[t] = "live" /\ t # presented[w]
    BY <2>1
  <2>3. \A s : LiveOut(s)' \subseteq LiveOut(s) \ {presented[w]}
    BY <1>0, <2>1, <2>2 DEF LiveOut
  <2>4. ASSUME Busy(w)' PROVE Holds(w)'
    <3>1. LiveOut(Sid(w)) \subseteq {presented[w]} /\ rotations[presented[w]] = 0
      BY <1>0, <2>1, <2>4 DEF Holds
    <3> QED BY <2>1, <2>3, <3>1 DEF Holds
  <2>5. ASSUME NEW v \in Workers, v # w, Busy(v)' PROVE Holds(v)'
    <3>1. Busy(v) /\ token'[presented[v]] \in {token[presented[v]], "used"}
      BY <1>0, <2>1, <2>5
    <3> QED BY <1>0, <2>1, <2>3, <2>5, <3>1, Undisturbed
  <2> QED BY <2>1, <2>2, <2>4, <2>5 DEF OneChain
<1>8. ASSUME NEW w \in Workers, IssueNext(w)
      PROVE Alone' /\ OneChain' /\ OneLiveToken'
  <2>1. /\ issued + 1 \in Tokens /\ issued + 1 \notin delivered /\ rotations[issued + 1] = 0
        /\ token' = [token EXCEPT ![issued + 1] = "live"]
        /\ Sid(w) \in Sids /\ family' = [family EXCEPT ![issued + 1] = Sid(w)]
        /\ pc[w] = "issue" /\ pc' = [pc EXCEPT ![w] = "session"]
        /\ UNCHANGED <<presented, seen, delivered, rotations, excused>>
    BY <1>8 DEF IssueNext, NewToken
  <2>2. /\ \A t \in delivered : family'[t] = family[t] /\ token'[t] = token[t]
        /\ \A v \in Workers : Busy(v)' => Busy(v) /\ presented[v] \in delivered
                                        /\ Sid(v)' = Sid(v)
    BY <2>1
  <2>3. \A s : LiveOut(s)' = LiveOut(s)
    BY <2>1, <2>2 DEF LiveOut
  <2>4. ASSUME Busy(w)' PROVE Holds(w)'
    <3>1. LiveOut(Sid(w)) = {} /\ rotations[presented[w]] = 0
      BY <1>0, <2>1, <2>2, <2>4 DEF Holds, Rotating
    <3>2. LiveOut(Sid(w))' = {} /\ pc'[w] = "session" /\ Sid(w)' = Sid(w)
      BY <2>1, <2>2, <2>3, <2>4, <3>1
    <3> QED BY <2>1, <3>1, <3>2 DEF Holds
  <2>5. ASSUME NEW v \in Workers, v # w, Busy(v)' PROVE Holds(v)'
    BY <1>0, <2>1, <2>2, <2>3, <2>5, Undisturbed
  <2>6. OneChain'
    BY <2>1, <2>4, <2>5 DEF OneChain
  <2> QED BY <2>1, <2>2, <2>6
<1>9. ASSUME NEW w \in Workers, ReadSession(w) \/ DiscardSession(w) \/ Fail(w)
      PROVE Alone' /\ OneChain' /\ OneLiveToken'
  <2>1. CASE ReadSession(w)
    BY <2>1 DEF ReadSession, OneChain, Holds, LiveOut, Rotating
  <2>2. CASE DiscardSession(w)
    BY <2>2 DEF DiscardSession, OneChain, Holds, LiveOut, Rotating
  <2>3. CASE Fail(w)
    BY <2>3 DEF Fail, OneChain, Holds, LiveOut, Rotating
  <2> QED BY <1>9, <2>1, <2>2, <2>3
<1>10. ASSUME NEW w \in Workers, PersistSession(w)
       PROVE Alone' /\ OneChain' /\ OneLiveToken'
  <2>1. /\ pc[w] = "persist" /\ pc' = [pc EXCEPT ![w] = "idle"]
        /\ delivered \subseteq delivered' /\ delivered' \subseteq delivered \cup {fresh[w]}
        /\ rotations' = [rotations EXCEPT ![presented[w]] = @ + 1]
        /\ UNCHANGED <<token, family, presented, seen, fresh, excused>>
        /\ presented[w] \in delivered /\ fresh[w] \notin delivered
        /\ fresh[w] \in Tokens /\ family[fresh[w]] = Sid(w)
    BY <1>10 DEF PersistSession
  <2>2. Sid(w) \notin excused => LiveOut(Sid(w)) = {} /\ rotations[presented[w]] = 0
    BY <1>0, <2>1 DEF Holds, Rotating
  <2>3. ASSUME NEW v \in Workers, Busy(v)' PROVE Holds(v)'
    <3>1. v # w /\ Busy(v) /\ Sid(v) # Sid(w) /\ presented[v] # presented[w]
      BY <2>1, <2>3
    <3>2. \A t \in delivered' : family[t] = Sid(v) => t \in delivered
      BY <2>1, <3>1
    <3>3. LiveOut(Sid(v))' \subseteq LiveOut(Sid(v)) /\ Sid(v)' = Sid(v)
      BY <2>1, <3>2 DEF LiveOut
    <3>4. pc'[v] = pc[v] /\ rotations'[presented[v]] = rotations[presented[v]]
      BY <1>0, <2>1, <3>1
    <3> QED BY <1>0, <2>1, <3>1, <3>3, <3>4, Undisturbed
  <2>4. \A t \in Tokens : family[t] \notin excused /\ token[t] = "live" => t # presented[w]
    BY <2>1, <2>2 DEF LiveOut
  <2>5. OneChain'
    BY <2>1, <2>3, <2>4 DEF OneChain
  <2>6. \A t \in Tokens : family[t] \notin excused /\ t \in delivered' => rotations'[t] <= 1
    <3>1. ASSUME NEW t \in delivered', family[t] \notin excused, t # presented[w],
                 t \in Tokens
          PROVE rotations'[t] <= 1
      <4>1. CASE t \in delivered
        BY <1>0, <2>1, <3>1, <4>1
      <4>2. CASE t \notin delivered
        BY <2>1, <3>1, <4>2
      <4> QED BY <4>1, <4>2
    <3>2. Sid(w) \notin excused => rotations'[presented[w]] = 1
      BY <2>1, <2>2
    <3> QED BY <3>1, <3>2
  <2>7. OneLiveToken'
    BY <1>0, <2>1, <2>2, <2>6
  <2> QED BY <2>1, <2>5, <2>7
<1>11. CASE UNCHANGED vars
  BY <1>11 DEF vars, OneChain, Holds, LiveOut, Rotating
<1> QED
  BY <1>1, <1>2, <1>3, <1>4, <1>5, <1>6, <1>7, <1>8, <1>9, <1>10, <1>11 DEF Next, Step

\* Without overlap or a compromised token coming back, a session has at most one
\* live token in clients' hands and no token is rotated twice.
THEOREM RotationIsAChain == Spec => []OneLiveToken
<1>1. Init => ChainInv
  BY TypeInit DEF Init, ChainInv, Alone, OneChain, OneLiveToken, Busy, Tokens
<1>2. ChainInv => OneLiveToken
  BY DEF ChainInv
<1> QED
  BY <1>1, <1>2, ChainStep, PTL DEF Spec
=============================================================================
