-------------------------- MODULE VirtAgentProofs ---------------------------
(***************************************************************************)
(* The pool of connections and the domains of virt_agent, for any number   *)
(* of borrowers, connections, closes, requests, jobs and restarts.  Spec   *)
(* and Consistent are those of LibvirtPool.                                *)
(***************************************************************************)
EXTENDS LibvirtPool, Domains, FiniteSetTheorems, SequenceTheorems, TLAPS

-----------------------------------------------------------------------------
(***************************************************************************)
(* Part 1.  LibvirtPool: its list stays within bounds, no connection has   *)
(* two holders, and none that is open, and no close, is lost but for the   *)
(* known reasons.  The proof goes in layers, each an invariant proved from *)
(* those before.                                                           *)
(***************************************************************************)

USE DEF conns, history, Borrowers

-----------------------------------------------------------------------------
(* The free list as a set                                                  *)

\* What Append adds to a list (put).
LEMMA ToSetAppend ==
    ASSUME NEW S, NEW s \in Seq(S), NEW e \in S
    PROVE  ToSet(Append(s, e)) = ToSet(s) \cup {e}
<1>1. /\ DOMAIN s = 1..Len(s) /\ Len(s) \in Nat
      /\ DOMAIN Append(s, e) = 1..(Len(s) + 1)
  BY LenProperties, AppendProperties
<1>2. /\ \A i \in 1..Len(s) : Append(s, e)[i] = s[i]
      /\ Append(s, e)[Len(s) + 1] = e
  BY AppendProperties
<1>3. 1..(Len(s) + 1) = 1..Len(s) \cup {Len(s) + 1}
  BY <1>1
<1>4. QED
  BY <1>1, <1>2, <1>3 DEF ToSet

\* A list stays without repetition when what it has not is added (put).
LEMMA InjectiveAppend ==
    ASSUME NEW S, NEW s \in Seq(S), NEW e \in S, IsInjective(s), e \notin ToSet(s)
    PROVE  IsInjective(Append(s, e))
<1>1. /\ DOMAIN s = 1..Len(s) /\ Len(s) \in Nat
      /\ DOMAIN Append(s, e) = 1..(Len(s) + 1)
  BY LenProperties, AppendProperties
<1>2. /\ \A i \in 1..Len(s) : Append(s, e)[i] = s[i]
      /\ Append(s, e)[Len(s) + 1] = e
  BY AppendProperties
<1>3. \A i \in 1..Len(s) : s[i] # e
  BY <1>1 DEF ToSet
<1>4. QED
  BY <1>1, <1>2, <1>3 DEF IsInjective

\* The last element of a list and the rest.
LEMMA LastFront ==
    ASSUME NEW S, NEW s \in Seq(S), s # <<>>
    PROVE  /\ Last(s) \in S
           /\ Front(s) \in Seq(S)
           /\ Len(Front(s)) = Len(s) - 1
           /\ \A i \in 1..(Len(s) - 1) : Front(s)[i] = s[i]
<1>1. Len(s) \in Nat \ {0} /\ \A i \in 1..Len(s) : s[i] \in S
  BY LenProperties, EmptySeq, ElementOfSeq
<1>2. \A i \in 1..(Len(s) - 1) : s[i] \in S
  BY <1>1
<1> DEFINE n == Len(s) - 1
<1>3. /\ SubSeq(s, 1, n) \in Seq(S)
      /\ Len(SubSeq(s, 1, n)) = IF 1 <= n THEN n - 1 + 1 ELSE 0
      /\ \A i \in 1..(n - 1 + 1) : SubSeq(s, 1, n)[i] = s[1 + i - 1]
  <2>1. n \in Int /\ 1 \in Int /\ \A i \in 1..n : s[i] \in S
    BY <1>1, <1>2
  <2> HIDE DEF n
  <2>2. QED
    BY <2>1, SubSeqProperties
<1>4. /\ SubSeq(s, 1, n) \in Seq(S)
      /\ Len(SubSeq(s, 1, n)) = n
      /\ \A i \in 1..n : SubSeq(s, 1, n)[i] = s[i]
  <2>1. n \in Nat
    BY <1>1
  <2> HIDE DEF n
  <2>2. n - 1 + 1 = n /\ \A i \in 1..n : 1 + i - 1 = i
    BY <2>1
  <2>3. QED
    BY <1>3, <2>1, <2>2
<1>5. Last(s) \in S
  BY <1>1 DEF Last
<1>6. QED
  BY <1>4, <1>5 DEF Front

\* What pop takes from a list without repetition, and what it leaves (get).
LEMMA PopProperties ==
    ASSUME NEW S, NEW s \in Seq(S), s # <<>>, IsInjective(s)
    PROVE  /\ Last(s) \in ToSet(s) /\ Last(s) \in S
           /\ Front(s) \in Seq(S)
           /\ Len(Front(s)) = Len(s) - 1
           /\ IsInjective(Front(s))
           /\ ToSet(Front(s)) = ToSet(s) \ {Last(s)}
<1>1. Len(s) \in Nat \ {0} /\ DOMAIN s = 1..Len(s)
  BY LenProperties, EmptySeq
<1>2. Len(s) \in 1..Len(s) /\ \A i \in 1..Len(s) : s[i] \in S
  BY <1>1, ElementOfSeq
<1>3. /\ Front(s) \in Seq(S)
      /\ Len(Front(s)) = Len(s) - 1
      /\ \A i \in 1..(Len(s) - 1) : Front(s)[i] = s[i]
  BY LastFront
<1>4. DOMAIN Front(s) = 1..(Len(s) - 1)
  BY <1>3, LenProperties
<1>5. Last(s) \in ToSet(s) /\ Last(s) \in S
  BY <1>1, <1>2 DEF Last, ToSet
<1>6. IsInjective(Front(s))
  BY <1>1, <1>3, <1>4 DEF IsInjective
<1>7. ToSet(Front(s)) = ToSet(s) \ {Last(s)}
  BY <1>1, <1>2, <1>3, <1>4 DEF IsInjective, ToSet, Last
<1>8. QED
  BY <1>3, <1>5, <1>6, <1>7

\* The list holds connections.
LEMMA FreeAreConns ==
    ASSUME TypeOK
    PROVE  ToSet(free) \subseteq Conns
BY LenProperties, ElementOfSeq DEF TypeOK, ToSet

-----------------------------------------------------------------------------
(* Types, and which borrowers have a connection in hand                    *)

\* A borrower that is not in a call, or has found none, has no connection; one
\* in the middle of making, checking or giving back one has it.
HandsMatchPc ==
    \A g \in Borrowers :
        /\ get[g].pc \in {"idle", "size", "open", "pop", "raised"} => get[g].conn = NoConn
        /\ get[g].pc \in {"watch", "check", "append"} => get[g].conn \in Conns

TypeInv == TypeOK /\ HandsMatchPc

\* What a borrower's next place and connection make of the others, and of types.
LEMMA Becoming ==
    ASSUME TypeInv, NEW g \in Borrowers, NEW pc \in GetPc, NEW c \in Conn,
           Becomes(g, pc, c)
    PROVE  /\ get' \in [Borrowers -> [pc : GetPc, conn : Conn]]
           /\ get'[g].pc = pc /\ get'[g].conn = c
           /\ \A h \in Borrowers \ {g} : get'[h] = get[h]
BY DEF Becomes, TypeInv, TypeOK

\* A place that goes with the connection keeps HandsMatchPc.
LEMMA HandsStayMatched ==
    ASSUME TypeInv, NEW g \in Borrowers, NEW pc \in GetPc, NEW c \in Conn,
           Becomes(g, pc, c),
           pc \in {"idle", "size", "open", "pop", "raised"} => c = NoConn,
           pc \in {"watch", "check", "append"} => c \in Conns
    PROVE  get' \in [Borrowers -> [pc : GetPc, conn : Conn]] /\ HandsMatchPc'
<1>1. /\ get' \in [Borrowers -> [pc : GetPc, conn : Conn]]
      /\ get'[g].pc = pc /\ get'[g].conn = c
      /\ \A h \in Borrowers \ {g} : get'[h] = get[h]
  BY Becoming
<1>2. HandsMatchPc'
  <2>1. \A h \in Borrowers : h = g \/ get'[h] = get[h]
    BY <1>1
  <2>2. QED
    BY <1>1, <2>1 DEF TypeInv, HandsMatchPc
<1>3. QED
  BY <1>1, <1>2

\* Closing a connection keeps the types.
LEMMA Closing ==
    ASSUME TypeInv, NEW c, Close(c)
    PROVE  /\ alive' \subseteq Conns /\ watched' \subseteq Conns
           /\ job' \in [Conns -> JobPc]
           /\ up' = up /\ closes' = closes
BY DEF Close, TypeInv, TypeOK, JobPc

\* Every variable keeps its type, whoever borrows and whatever closes.
LEMMA TypeInvariant == Spec => []TypeInv
<1>1. Init => TypeInv
  <2> SUFFICES ASSUME Init PROVE TypeInv
    OBVIOUS
  <2>1. 1 \in Conns /\ 2 \in Conns /\ <<2>> \in Seq(Conns)
    BY LibvirtPoolAssumption
  <2>2. \A g \in Borrowers : get[g] = [pc |-> "idle", conn |-> NoConn]
    BY DEF Init, Idle
  <2>3. get \in [Borrowers -> [pc : GetPc, conn : Conn]]
    BY DEF Init, Idle, GetPc, Conn
  <2>4. HandsMatchPc
    BY <2>2 DEF HandsMatchPc
  <2>5. job \in [Conns -> JobPc] /\ closes \in 0..MaxCloses
    BY LibvirtPoolAssumption DEF Init, JobPc
  <2>6. QED
    BY <2>1, <2>3, <2>4, <2>5 DEF Init, TypeInv, TypeOK, First, Second, Conn
<1>2. TypeInv /\ [Next]_vars => TypeInv'
  <2> SUFFICES ASSUME TypeInv, [Next]_vars
               PROVE  TypeInv'
    OBVIOUS
  <2>0. /\ TypeOK /\ HandsMatchPc
        /\ Enabler \in Borrowers /\ Users \subseteq Borrowers /\ Enabler \notin Users
        /\ NoConn \in Conn /\ Conns \subseteq Conn /\ alive \subseteq Conns
        /\ \A g \in Borrowers : get[g].conn \in Conn
    BY LibvirtPoolAssumption DEF TypeInv, TypeOK, Conn
  <2> USE DEF At, GetPc
  <2>1. ASSUME NEW u \in Users, BeginGet(u) PROVE TypeInv'
    <3>1. get' \in [Borrowers -> [pc : GetPc, conn : Conn]] /\ HandsMatchPc'
      BY <2>0, <2>1, HandsStayMatched DEF BeginGet
    <3>2. QED
      BY <2>0, <2>1, <3>1 DEF BeginGet, TypeInv, TypeOK
  <2>2. ASSUME NEW g \in Borrowers, LookAtSize(g) PROVE TypeInv'
    <3>1. get[g].conn = NoConn
      BY <2>0, <2>2 DEF LookAtSize, HandsMatchPc
    <3>2. get' \in [Borrowers -> [pc : GetPc, conn : Conn]] /\ HandsMatchPc'
      BY <2>0, <2>2, <3>1, HandsStayMatched DEF LookAtSize, Keeps
    <3>3. QED
      BY <2>0, <2>2, <3>2 DEF LookAtSize, TypeInv, TypeOK
  <2>3. ASSUME NEW g \in Borrowers, OpenConn(g) PROVE TypeInv'
    <3>1. CASE ~up
      <4>1. Becomes(g, "idle", NoConn) \/ Becomes(g, "got", NoConn)
        BY <2>3, <3>1 DEF OpenConn, EndsWithout
      <4>2. get' \in [Borrowers -> [pc : GetPc, conn : Conn]] /\ HandsMatchPc'
        BY <2>0, <4>1, HandsStayMatched
      <4>3. QED
        BY <2>0, <2>3, <3>1, <4>2 DEF OpenConn, TypeInv, TypeOK
    <3>2. CASE up
      <4>1. PICK c \in Conns \ Known :
                Becomes(g, "watch", c) /\ alive' = alive \cup {c}
        BY <2>3, <3>2 DEF OpenConn
      <4>2. get' \in [Borrowers -> [pc : GetPc, conn : Conn]] /\ HandsMatchPc'
        BY <2>0, <4>1, HandsStayMatched
      <4>3. QED
        BY <2>0, <2>3, <4>1, <4>2 DEF OpenConn, TypeInv, TypeOK
    <3>3. QED
      BY <3>1, <3>2
  <2>4. ASSUME NEW g \in Borrowers, WatchConn(g) PROVE TypeInv'
    <3>1. get' \in [Borrowers -> [pc : GetPc, conn : Conn]] /\ HandsMatchPc'
      BY <2>0, <2>4, HandsStayMatched DEF WatchConn, Keeps
    <3>2. QED
      BY <2>0, <2>4, <3>1 DEF WatchConn, TypeInv, TypeOK
  <2>5. ASSUME NEW g \in Borrowers, PopConn(g) PROVE TypeInv'
    <3>1. CASE free = <<>>
      <4>1. Becomes(g, "idle", NoConn) \/ Becomes(g, "raised", NoConn)
        BY <2>5, <3>1 DEF PopConn, EndsWithout
      <4>2. get' \in [Borrowers -> [pc : GetPc, conn : Conn]] /\ HandsMatchPc'
        BY <2>0, <4>1, HandsStayMatched
      <4>3. QED
        BY <2>0, <2>5, <3>1, <4>2 DEF PopConn, TypeInv, TypeOK
    <3>2. CASE free # <<>>
      <4>1. Becomes(g, "check", Last(free)) /\ free' = Front(free)
        BY <2>5, <3>2 DEF PopConn
      <4>2. Last(free) \in Conns /\ Front(free) \in Seq(Conns)
        BY <2>0, <3>2, LastFront DEF TypeOK
      <4>3. get' \in [Borrowers -> [pc : GetPc, conn : Conn]] /\ HandsMatchPc'
        BY <2>0, <4>1, <4>2, HandsStayMatched
      <4>4. QED
        BY <2>0, <2>5, <4>1, <4>2, <4>3 DEF PopConn, TypeInv, TypeOK
    <3>3. QED
      BY <3>1, <3>2
  <2>6. ASSUME NEW g \in Borrowers, CheckConn(g) PROVE TypeInv'
    <3>1. CASE get[g].conn \in alive
      <4>1. get' \in [Borrowers -> [pc : GetPc, conn : Conn]] /\ HandsMatchPc'
        BY <2>0, <2>6, <3>1, HandsStayMatched DEF CheckConn, Keeps
      <4>2. QED
        BY <2>0, <2>6, <3>1, <4>1 DEF CheckConn, Leave, TypeInv, TypeOK
    <3>2. CASE get[g].conn \notin alive
      <4>1. Becomes(g, "idle", NoConn) \/ Becomes(g, "got", NoConn)
        BY <2>6, <3>2 DEF CheckConn, EndsWithout
      <4>2. get' \in [Borrowers -> [pc : GetPc, conn : Conn]] /\ HandsMatchPc'
        BY <2>0, <4>1, HandsStayMatched
      <4>3. /\ alive' \subseteq Conns /\ watched' \subseteq Conns
            /\ job' \in [Conns -> JobPc]
            /\ up' = up /\ closes' = closes
        BY <2>6, <3>2, Closing DEF CheckConn
      <4>4. QED
        BY <2>0, <2>6, <4>2, <4>3 DEF CheckConn, TypeInv, TypeOK
    <3>3. QED
      BY <3>1, <3>2
  <2>7. ASSUME NEW u \in Users, LeaveConn(u) PROVE TypeInv'
    <3>1. get' \in [Borrowers -> [pc : GetPc, conn : Conn]] /\ HandsMatchPc'
      BY <2>0, <2>7, HandsStayMatched DEF LeaveConn
    <3>2. /\ alive' \subseteq Conns /\ watched' \subseteq Conns
          /\ job' \in [Conns -> JobPc]
          /\ up' = up /\ closes' = closes
      BY <2>7, Closing DEF LeaveConn
    <3>3. QED
      BY <2>0, <2>7, <3>1, <3>2 DEF LeaveConn, TypeInv, TypeOK
  <2>8. ASSUME NEW u \in Users, BeginPut(u) PROVE TypeInv'
    <3>1. CASE get[u].conn \in alive
      <4>1. get' \in [Borrowers -> [pc : GetPc, conn : Conn]] /\ HandsMatchPc'
        BY <2>0, <2>8, <3>1, HandsStayMatched DEF BeginPut, Keeps
      <4>2. QED
        BY <2>0, <2>8, <3>1, <4>1 DEF BeginPut, Leave, TypeInv, TypeOK
    <3>2. CASE get[u].conn \notin alive
      <4>1. get' \in [Borrowers -> [pc : GetPc, conn : Conn]] /\ HandsMatchPc'
        BY <2>0, <2>8, <3>2, HandsStayMatched DEF BeginPut
      <4>2. /\ alive' \subseteq Conns /\ watched' \subseteq Conns
            /\ job' \in [Conns -> JobPc]
            /\ up' = up /\ closes' = closes
        BY <2>8, <3>2, Closing DEF BeginPut
      <4>3. QED
        BY <2>0, <2>8, <4>1, <4>2 DEF BeginPut, TypeInv, TypeOK
    <3>3. QED
      BY <3>1, <3>2
  <2>9. ASSUME NEW u \in Users, PutConn(u) PROVE TypeInv'
    <3>1. get[u].conn \in Conns
      BY <2>0, <2>9 DEF PutConn, HandsMatchPc
    <3>2. get' \in [Borrowers -> [pc : GetPc, conn : Conn]] /\ HandsMatchPc'
      BY <2>0, <2>9, HandsStayMatched DEF PutConn
    <3>3. CASE Len(free) < MaxSize
      <4>1. free' \in Seq(Conns)
        BY <2>0, <2>9, <3>1, <3>3, AppendProperties DEF PutConn, TypeOK
      <4>2. QED
        BY <2>0, <2>9, <3>2, <3>3, <4>1 DEF PutConn, Leave, TypeInv, TypeOK
    <3>4. CASE ~(Len(free) < MaxSize)
      <4>1. /\ alive' \subseteq Conns /\ watched' \subseteq Conns
            /\ job' \in [Conns -> JobPc]
            /\ up' = up /\ closes' = closes
        BY <2>9, <3>4, Closing DEF PutConn
      <4>2. QED
        BY <2>0, <2>9, <3>2, <3>4, <4>1 DEF PutConn, TypeInv, TypeOK
    <3>5. QED
      BY <3>3, <3>4
  <2>10. CASE LoseConns
    <3>1. closes' \in 0..MaxCloses
      BY <2>0, <2>10, LibvirtPoolAssumption DEF LoseConns, TypeOK
    <3>2. PICK lost \in SUBSET alive : Lose(lost)
      BY <2>10 DEF LoseConns
    <3>3. alive' \subseteq Conns /\ job' \in [Conns -> JobPc]
      BY <2>0, <3>2 DEF Lose, JobPc, TypeOK
    <3>4. up' \in BOOLEAN
      BY <2>0, <2>10 DEF LoseConns, TypeOK
    <3>5. QED
      BY <2>0, <2>10, <3>1, <3>3, <3>4 DEF LoseConns, TypeInv, TypeOK, HandsMatchPc
  <2>11. CASE StartLibvirtd
    BY <2>0, <2>11 DEF StartLibvirtd, TypeInv, TypeOK, HandsMatchPc
  <2>12. ASSUME NEW c \in Conns, CheckEventConn(c) PROVE TypeInv'
    BY <2>0, <2>12 DEF CheckEventConn, JobGoes, JobPc, TypeInv, TypeOK, HandsMatchPc
  <2>13. ASSUME NEW c \in Conns, SetConnecting(c) PROVE TypeInv'
    BY <2>0, <2>13 DEF SetConnecting, JobGoes, JobPc, TypeInv, TypeOK, HandsMatchPc
  <2>14. ASSUME NEW c \in Conns, DisableEvents(c) PROVE TypeInv'
    BY <2>0, <2>14 DEF DisableEvents, JobGoes, JobPc, TypeInv, TypeOK, HandsMatchPc
  <2>15. ASSUME NEW c \in Conns, WhileNotEnabled(c) PROVE TypeInv'
    <3>1. job' \in [Conns -> JobPc]
      BY <2>0, <2>15 DEF WhileNotEnabled, JobGoes, JobPc, TypeOK
    <3>2. get' \in [Borrowers -> [pc : GetPc, conn : Conn]] /\ HandsMatchPc'
      <4>1. CASE event = NoConn
        BY <2>0, <2>15, <4>1, HandsStayMatched DEF WhileNotEnabled
      <4>2. CASE event # NoConn
        BY <2>0, <2>15, <4>2 DEF WhileNotEnabled, TypeOK, HandsMatchPc
      <4>3. QED
        BY <4>1, <4>2
    <3>3. QED
      BY <2>0, <2>15, <3>1, <3>2 DEF WhileNotEnabled, TypeInv, TypeOK
  <2>16. ASSUME NEW c \in Conns, EnableEvents(c) PROVE TypeInv'
    <3>1. get' \in [Borrowers -> [pc : GetPc, conn : Conn]] /\ HandsMatchPc'
      BY <2>0, <2>16, HandsStayMatched DEF EnableEvents
    <3>2. job' \in [Conns -> JobPc] /\ event' \in Conn /\ raced' \in BOOLEAN
      BY <2>0, <2>16 DEF EnableEvents, JobGoes, JobPc, TypeOK
    <3>3. QED
      BY <2>0, <2>16, <3>1, <3>2 DEF EnableEvents, TypeInv, TypeOK
  <2>17. ASSUME NEW c \in Conns, ClearConnecting(c) PROVE TypeInv'
    BY <2>0, <2>17 DEF ClearConnecting, JobGoes, JobPc, TypeInv, TypeOK, HandsMatchPc
  <2>18. CASE UNCHANGED vars
    BY <2>0, <2>18 DEF vars, TypeInv, TypeOK, HandsMatchPc
  <2>19. QED
    BY <2>1, <2>2, <2>3, <2>4, <2>5, <2>6, <2>7, <2>8, <2>9, <2>10, <2>11, <2>12,
       <2>13, <2>14, <2>15, <2>16, <2>17, <2>18
       DEF Next, GetStep, UserStep, JobStep
<1>3. QED
  BY <1>1, <1>2, PTL DEF Spec

-----------------------------------------------------------------------------
(* The list stays within its bound, and a connection has one holder        *)

PoolInv == TypeInv /\ FreeWithinMax /\ ConnHasOneHolder

\* Borrowers that keep what they have or let go of it.
NobodyTakes == \A g \in Borrowers : get'[g].conn \in {get[g].conn, NoConn}

\* While nobody takes a connection, it has one holder as before.
LEMMA KeepsOneHolder ==
    ASSUME TypeInv, ConnHasOneHolder, free' = free, event' \in {event, NoConn}, NobodyTakes
    PROVE  ConnHasOneHolder'
<1>1. NoConn \notin ToSet(free)
  BY FreeAreConns, LibvirtPoolAssumption DEF TypeInv
<1>2. QED
  BY <1>1 DEF ConnHasOneHolder, NobodyTakes

\* One borrower lets go or keeps, the others do nothing.
LEMMA KeepsOrLetsGo ==
    ASSUME TypeInv, NEW g \in Borrowers, NEW pc \in GetPc, NEW c \in {get[g].conn, NoConn},
           Becomes(g, pc, c)
    PROVE  NobodyTakes
<1>1. c \in Conn
  BY DEF TypeInv, TypeOK, Conn
<1>2. /\ get'[g].conn = c
      /\ \A h \in Borrowers \ {g} : get'[h] = get[h]
  BY <1>1, Becoming
<1>3. QED
  BY <1>2 DEF NobodyTakes

\* Which steps take a connection: opening, popping, and no other.
LEMMA OthersDoNotTake ==
    ASSUME TypeInv, [Next]_vars,
           \A g \in Borrowers : ~OpenConn(g) /\ ~PopConn(g)
    PROVE  NobodyTakes
<1>0. /\ Enabler \in Borrowers /\ Users \subseteq Borrowers
  OBVIOUS
<1> USE DEF At, GetPc, Keeps
<1>1. CASE get' = get
  BY <1>1 DEF NobodyTakes
<1>2. ASSUME NEW g \in Borrowers, GetStep(g) PROVE NobodyTakes
  <2>1. CASE LookAtSize(g)
    BY <2>1, KeepsOrLetsGo DEF LookAtSize
  <2>2. CASE WatchConn(g)
    BY <2>2, KeepsOrLetsGo DEF WatchConn
  <2>3. CASE CheckConn(g)
    BY <2>3, KeepsOrLetsGo DEF CheckConn, EndsWithout
  <2>4. QED
    BY <1>2, <2>1, <2>2, <2>3 DEF GetStep
<1>3. ASSUME NEW u \in Users, UserStep(u) PROVE NobodyTakes
  BY <1>0, <1>3, KeepsOrLetsGo DEF UserStep, BeginGet, LeaveConn, BeginPut, PutConn
<1>4. ASSUME NEW c \in Conns, JobStep(c) PROVE NobodyTakes
  <2>1. CASE WhileNotEnabled(c) /\ event = NoConn
    BY <1>0, <2>1, KeepsOrLetsGo DEF WhileNotEnabled
  <2>2. CASE EnableEvents(c)
    BY <1>0, <2>2, KeepsOrLetsGo DEF EnableEvents
  <2>3. QED
    BY <1>1, <1>4, <2>1, <2>2
       DEF JobStep, CheckEventConn, SetConnecting, DisableEvents, WhileNotEnabled, ClearConnecting
<1>5. QED
  BY <1>1, <1>2, <1>3, <1>4 DEF Next, LoseConns, StartLibvirtd, vars

\* No number of borrowers makes the list overflow or a connection shared.
LEMMA PoolInvariant == Spec => []PoolInv
<1>1. Init => FreeWithinMax /\ ConnHasOneHolder
  <2> SUFFICES ASSUME Init PROVE FreeWithinMax /\ ConnHasOneHolder
    OBVIOUS
  <2>1. free = <<2>> /\ event = 1 /\ \A g \in Borrowers : get[g].conn = NoConn
    BY DEF Init, Idle, First, Second
  <2>2. Len(free) = 1 /\ DOMAIN free = {1} /\ free[1] = 2
    BY <2>1
  <2>3. FreeWithinMax
    BY <2>2, LibvirtPoolAssumption DEF FreeWithinMax
  <2>4. ConnHasOneHolder
    BY <2>1, <2>2 DEF ConnHasOneHolder, IsInjective, ToSet
  <2>5. QED
    BY <2>3, <2>4
<1>2. PoolInv /\ TypeInv' /\ [Next]_vars => FreeWithinMax' /\ ConnHasOneHolder'
  <2> SUFFICES ASSUME PoolInv, TypeInv', [Next]_vars
               PROVE  FreeWithinMax' /\ ConnHasOneHolder'
    OBVIOUS
  <2>0. /\ TypeInv /\ FreeWithinMax /\ ConnHasOneHolder
        /\ free \in Seq(Conns) /\ Len(free) \in Nat /\ MaxSize \in Nat
        /\ ToSet(free) \subseteq Conns /\ NoConn \notin Conns
        /\ Enabler \in Borrowers /\ Users \subseteq Borrowers
    BY FreeAreConns, LibvirtPoolAssumption, LenProperties DEF PoolInv, TypeInv, TypeOK
  <2>1. ASSUME NEW g \in Borrowers, OpenConn(g)
        PROVE  FreeWithinMax' /\ ConnHasOneHolder'
    <3>1. free' = free /\ event' = event
      BY <2>1 DEF OpenConn
    <3>2. FreeWithinMax'
      BY <2>0, <3>1 DEF FreeWithinMax
    <3>3. CASE ~up
      <4>1. Becomes(g, "idle", NoConn) \/ Becomes(g, "got", NoConn)
        BY <2>1, <3>3 DEF OpenConn, EndsWithout
      <4>2. NobodyTakes
        BY <2>0, <4>1, KeepsOrLetsGo DEF GetPc
      <4>3. QED
        BY <2>0, <3>1, <3>2, <4>2, KeepsOneHolder
    <3>4. CASE up
      <4>1. PICK c \in Conns \ Known : Becomes(g, "watch", c)
        BY <2>1, <3>4 DEF OpenConn
      <4>2. /\ get'[g].conn = c
            /\ \A h \in Borrowers \ {g} : get'[h] = get[h]
        BY <2>0, <4>1, Becoming DEF GetPc, Conn
      <4>3. c \notin ToSet(free) \cup {event} /\ \A h \in Borrowers : get[h].conn # c
        BY <4>1 DEF Known
      <4>4. ConnHasOneHolder'
        BY <2>0, <3>1, <4>2, <4>3 DEF ConnHasOneHolder
      <4>5. QED
        BY <3>2, <4>4
    <3>5. QED
      BY <3>3, <3>4
  <2>2. ASSUME NEW g \in Borrowers, PopConn(g)
        PROVE  FreeWithinMax' /\ ConnHasOneHolder'
    <3>1. event' = event
      BY <2>2 DEF PopConn
    <3>2. CASE free = <<>>
      <4>1. /\ Becomes(g, "idle", NoConn) \/ Becomes(g, "raised", NoConn)
            /\ free' = free
        BY <2>2, <3>2 DEF PopConn, EndsWithout
      <4>2. NobodyTakes
        BY <2>0, <4>1, KeepsOrLetsGo DEF GetPc
      <4>3. QED
        BY <2>0, <3>1, <4>1, <4>2, KeepsOneHolder DEF FreeWithinMax
    <3>3. CASE free # <<>>
      <4>1. Becomes(g, "check", Last(free)) /\ free' = Front(free)
        BY <2>2, <3>3 DEF PopConn
      <4>2. /\ Last(free) \in ToSet(free) /\ Last(free) \in Conns
            /\ Len(free') = Len(free) - 1
            /\ IsInjective(free')
            /\ ToSet(free') = ToSet(free) \ {Last(free)}
        BY <2>0, <3>3, <4>1, PopProperties DEF ConnHasOneHolder
      <4>3. /\ get'[g].conn = Last(free)
            /\ \A h \in Borrowers \ {g} : get'[h] = get[h]
        BY <2>0, <4>1, <4>2, Becoming DEF GetPc, Conn
      <4>4. FreeWithinMax'
        BY <2>0, <4>2 DEF FreeWithinMax
      <4>5. ConnHasOneHolder'
        BY <2>0, <3>1, <4>2, <4>3 DEF ConnHasOneHolder
      <4>6. QED
        BY <4>4, <4>5
    <3>4. QED
      BY <3>2, <3>3
  <2>3. ASSUME NEW u \in Users, PutConn(u), Len(free) < MaxSize
        PROVE  FreeWithinMax' /\ ConnHasOneHolder'
    <3> DEFINE c == get[u].conn
    <3>1. /\ free' = Append(free, c) /\ event' = event
          /\ Becomes(u, "idle", NoConn)
      BY <2>3 DEF PutConn
    <3>2. c \in Conns
      BY <2>0, <2>3 DEF PutConn, At, TypeInv, HandsMatchPc
    <3>3. /\ get'[u].conn = NoConn
          /\ \A h \in Borrowers \ {u} : get'[h] = get[h]
      BY <2>0, <3>1, Becoming DEF GetPc, Conn
    <3>4. /\ c \notin ToSet(free) \cup {event}
          /\ \A h \in Borrowers \ {u} : get[h].conn # c
      BY <2>0, <3>2 DEF ConnHasOneHolder
    <3>5. /\ ToSet(free') = ToSet(free) \cup {c}
          /\ IsInjective(free')
          /\ Len(free') = Len(free) + 1
      BY <2>0, <3>1, <3>2, <3>4, ToSetAppend, InjectiveAppend, AppendProperties
         DEF ConnHasOneHolder
    <3>6. FreeWithinMax'
      BY <2>0, <2>3, <3>5 DEF FreeWithinMax
    <3>7. ConnHasOneHolder'
      BY <2>0, <3>1, <3>3, <3>4, <3>5 DEF ConnHasOneHolder
    <3>8. QED
      BY <3>6, <3>7
  <2>4. ASSUME NEW c \in Conns, EnableEvents(c), At(Enabler, "got")
        PROVE  FreeWithinMax' /\ ConnHasOneHolder'
    <3>1. /\ free' = free /\ event' = get[Enabler].conn
          /\ Becomes(Enabler, "idle", NoConn)
      BY <2>4 DEF EnableEvents, At
    <3>2. /\ get'[Enabler].conn = NoConn
          /\ \A h \in Borrowers \ {Enabler} : get'[h] = get[h]
      BY <2>0, <3>1, Becoming DEF GetPc, Conn
    <3>3. ConnHasOneHolder'
      BY <2>0, <3>1, <3>2 DEF ConnHasOneHolder
    <3>4. QED
      BY <2>0, <3>1, <3>3 DEF FreeWithinMax
  <2>5. CASE /\ \A g \in Borrowers : ~OpenConn(g) /\ ~PopConn(g)
             /\ free' = free /\ event' \in {event, NoConn}
    BY <2>0, <2>5, OthersDoNotTake, KeepsOneHolder DEF FreeWithinMax
  <2>6. ASSUME ~(\E g \in Borrowers : OpenConn(g) \/ PopConn(g)),
               ~(\E u \in Users : PutConn(u) /\ Len(free) < MaxSize)
        PROVE  free' = free
    BY <2>6 DEF Next, GetStep, LookAtSize, WatchConn, CheckConn, UserStep, BeginGet,
                LeaveConn, BeginPut, PutConn, LoseConns, StartLibvirtd, JobStep,
                CheckEventConn, SetConnecting, DisableEvents, WhileNotEnabled, EnableEvents,
                ClearConnecting, vars
  <2>7. ASSUME ~(\E g \in Borrowers : OpenConn(g) \/ PopConn(g)),
               ~(\E c \in Conns : EnableEvents(c) /\ At(Enabler, "got"))
        PROVE  event' \in {event, NoConn}
    BY <2>7 DEF Next, GetStep, LookAtSize, WatchConn, CheckConn, UserStep, BeginGet,
                LeaveConn, BeginPut, PutConn, LoseConns, StartLibvirtd, JobStep,
                CheckEventConn, SetConnecting, DisableEvents, WhileNotEnabled, EnableEvents,
                ClearConnecting, vars
  <2>8. QED
    BY <2>1, <2>2, <2>3, <2>4, <2>5, <2>6, <2>7
<1>3. QED
  BY <1>1, <1>2, TypeInvariant, PTL DEF Spec, PoolInv

-----------------------------------------------------------------------------
(* The close jobs: one connects at a time, and the event connection changes *)
(* only in its hands                                                        *)

Working(c) == job[c] \in {"disable", "loop", "enable", "clear"}

JobsAreOfClosed == \A c \in Conns : job[c] # "none" => c \notin alive
OneConnects ==
    \A c \in Conns : Working(c) => connecting /\ \A d \in Conns : Working(d) => d = c
ConnectingHasCause == connecting => raced \/ \E c \in Conns : Working(c)
EnableHasNoEvent == \A c \in Conns : job[c] = "enable" => event = NoConn
FlaggedIsEvent == \A c \in Conns : job[c] \in {"flag", "disable"} => event = c

JobInv ==
    /\ JobsAreOfClosed /\ OneConnects /\ ConnectingHasCause
    /\ EnableHasNoEvent /\ FlaggedIsEvent

\* Jobs that come and go before they have begun change nothing for the others.
LEMMA QuietStep ==
    ASSUME JobInv,
           event' = event, connecting' = connecting, raced' = raced,
           \A c \in Conns : job'[c] = job[c] \/ {job[c], job'[c]} \subseteq {"none", "due"},
           \A c \in Conns : job'[c] # "none" => c \notin alive'
    PROVE  JobInv'
<1>1. \A c \in Conns : Working(c)' <=> Working(c)
  BY DEF Working
<1>2. JobsAreOfClosed' /\ EnableHasNoEvent' /\ FlaggedIsEvent'
  BY DEF JobInv, JobsAreOfClosed, EnableHasNoEvent, FlaggedIsEvent
<1>3. OneConnects' /\ ConnectingHasCause'
  BY <1>1 DEF JobInv, OneConnects, ConnectingHasCause
<1>4. QED
  BY <1>2, <1>3 DEF JobInv

\* What closing a connection that was in a borrower's hands does to the jobs.
LEMMA CloseIsQuiet ==
    ASSUME TypeInv, JobInv, NEW x, Close(x),
           event' = event, connecting' = connecting, raced' = raced
    PROVE  JobInv'
<1>1. \A c \in Conns : job'[c] = job[c] \/ (job[c] = "due" /\ job'[c] = "none")
  BY DEF Close, TypeInv, TypeOK
<1>2. alive' \subseteq alive
  BY DEF Close
<1>3. QED
  BY <1>1, <1>2, QuietStep DEF JobInv, JobsAreOfClosed

\* The layer of the close jobs: every step keeps JobInv.
LEMMA JobInvariant == Spec => []JobInv
<1>1. Init => JobInv
  BY LibvirtPoolAssumption
     DEF Init, JobInv, JobsAreOfClosed, OneConnects, ConnectingHasCause, EnableHasNoEvent,
         FlaggedIsEvent, Working
<1>2. JobInv /\ TypeInv /\ [Next]_vars => JobInv'
  <2> SUFFICES ASSUME JobInv, TypeInv, [Next]_vars
               PROVE  JobInv'
    OBVIOUS
  <2>0. job \in [Conns -> JobPc] /\ NoConn \notin Conns
    BY LibvirtPoolAssumption DEF TypeInv, TypeOK
  <2>1. ASSUME NEW g \in Borrowers, GetStep(g) PROVE JobInv'
    <3>1. CASE LookAtSize(g) \/ WatchConn(g) \/ PopConn(g)
      BY <3>1, QuietStep DEF LookAtSize, WatchConn, PopConn, JobInv, JobsAreOfClosed
    <3>2. CASE OpenConn(g)
      <4>1. \A c \in Conns : c \in alive' => c \in alive \/ job[c] = "none"
        BY <3>2 DEF OpenConn, Known
      <4>2. job' = job /\ event' = event /\ connecting' = connecting /\ raced' = raced
        BY <3>2 DEF OpenConn
      <4>3. QED
        BY <4>1, <4>2, QuietStep DEF JobInv, JobsAreOfClosed
    <3>3. CASE CheckConn(g)
      <4>1. (job' = job /\ alive' = alive) \/ Close(get[g].conn)
        BY <3>3 DEF CheckConn, Leave
      <4>2. event' = event /\ connecting' = connecting /\ raced' = raced
        BY <3>3 DEF CheckConn
      <4>3. QED
        BY <4>1, <4>2, CloseIsQuiet, QuietStep DEF JobInv, JobsAreOfClosed
    <3>4. QED
      BY <2>1, <3>1, <3>2, <3>3 DEF GetStep
  <2>2. ASSUME NEW u \in Users, UserStep(u) PROVE JobInv'
    <3>1. (job' = job /\ alive' = alive) \/ Close(get[u].conn)
      BY <2>2 DEF UserStep, BeginGet, LeaveConn, BeginPut, PutConn, Leave
    <3>2. event' = event /\ connecting' = connecting /\ raced' = raced
      BY <2>2 DEF UserStep, BeginGet, LeaveConn, BeginPut, PutConn
    <3>3. QED
      BY <3>1, <3>2, CloseIsQuiet, QuietStep DEF JobInv, JobsAreOfClosed
  <2>3. CASE LoseConns
    <3>1. PICK lost \in SUBSET alive : Lose(lost)
      BY <2>3 DEF LoseConns
    <3>2. \A c \in Conns : \/ job'[c] = job[c]
                           \/ c \in lost /\ job'[c] = "due"
      BY <3>1 DEF Lose
    <3>3. \A c \in lost : c \in Conns => job[c] = "none"
      BY <3>1 DEF JobInv, JobsAreOfClosed
    <3>4. alive' = alive \ lost
      BY <3>1 DEF Lose
    <3>5. event' = event /\ connecting' = connecting /\ raced' = raced
      BY <2>3 DEF LoseConns
    <3>6. QED
      BY <3>2, <3>3, <3>4, <3>5, QuietStep DEF JobInv, JobsAreOfClosed
  <2>4. CASE StartLibvirtd \/ UNCHANGED vars
    BY <2>4, QuietStep DEF StartLibvirtd, vars, JobInv, JobsAreOfClosed
  <2>5. ASSUME NEW c \in Conns, JobStep(c) PROVE JobInv'
    <3>1. \A d \in Conns \ {c} : job'[d] = job[d]
      BY <2>0, <2>5 DEF JobStep, JobGoes, CheckEventConn, SetConnecting, DisableEvents,
                        WhileNotEnabled, EnableEvents, ClearConnecting
    <3>2. alive' \subseteq alive
      BY <2>5 DEF JobStep, CheckEventConn, SetConnecting, DisableEvents,
                  WhileNotEnabled, EnableEvents, ClearConnecting
    <3>3. job[c] # "none"
      BY <2>5 DEF JobStep, CheckEventConn, SetConnecting, DisableEvents,
                  WhileNotEnabled, EnableEvents, ClearConnecting
    <3>4. JobsAreOfClosed'
      BY <3>1, <3>2, <3>3 DEF JobInv, JobsAreOfClosed
    <3>5. \A d \in Conns \ {c} : Working(d)' <=> Working(d)
      BY <3>1 DEF Working
    <3> USE <2>0 DEF JobGoes
    <3>6. CASE CheckEventConn(c)
      <4>1. /\ job[c] = "due" /\ job'[c] = IF event = c THEN "flag" ELSE "none"
            /\ event' = event /\ connecting' = connecting /\ raced' = raced
        BY <3>6 DEF CheckEventConn
      <4>2. ~Working(c) /\ ~Working(c)'
        BY <4>1 DEF Working
      <4>3. OneConnects' /\ ConnectingHasCause'
        BY <3>5, <4>1, <4>2 DEF JobInv, OneConnects, ConnectingHasCause
      <4>4. EnableHasNoEvent' /\ FlaggedIsEvent'
        BY <3>1, <4>1 DEF JobInv, EnableHasNoEvent, FlaggedIsEvent
      <4>5. QED
        BY <3>4, <4>3, <4>4 DEF JobInv
    <3>7. CASE SetConnecting(c)
      <4>1. /\ job[c] = "flag" /\ event' = event /\ event = c /\ raced' = raced
            /\ job'[c] = IF connecting THEN "none" ELSE "disable"
            /\ connecting'
        BY <3>7 DEF SetConnecting, JobInv, FlaggedIsEvent
      <4>2. EnableHasNoEvent' /\ FlaggedIsEvent'
        BY <3>1, <4>1 DEF JobInv, EnableHasNoEvent, FlaggedIsEvent
      <4>3. OneConnects' /\ ConnectingHasCause'
        <5>1. CASE connecting
          <6>1. ~Working(c) /\ ~Working(c)'
            BY <4>1, <5>1 DEF Working
          <6>2. QED
            BY <3>5, <4>1, <5>1, <6>1 DEF JobInv, OneConnects, ConnectingHasCause
        <5>2. CASE ~connecting
          <6>1. Working(c)' /\ \A d \in Conns : ~Working(d)
            BY <4>1, <5>2 DEF Working, JobInv, OneConnects
          <6>2. QED
            BY <3>5, <4>1, <6>1 DEF OneConnects, ConnectingHasCause
        <5>3. QED
          BY <5>1, <5>2
      <4>4. QED
        BY <3>4, <4>2, <4>3 DEF JobInv
    <3>8. CASE DisableEvents(c) \/ WhileNotEnabled(c)
      <4>1. /\ Working(c) /\ Working(c)'
            /\ connecting' = connecting /\ raced' = raced
        BY <3>8 DEF DisableEvents, WhileNotEnabled, Working
      <4>2. OneConnects' /\ ConnectingHasCause'
        BY <3>5, <4>1 DEF JobInv, OneConnects, ConnectingHasCause
      <4>3. \A d \in Conns \ {c} : job[d] \notin {"enable", "disable"}
        BY <4>1 DEF Working, JobInv, OneConnects
      <4>4. EnableHasNoEvent' /\ FlaggedIsEvent'
        <5>1. CASE DisableEvents(c)
          BY <3>1, <4>3, <5>1
             DEF DisableEvents, JobInv, EnableHasNoEvent, FlaggedIsEvent
        <5>2. CASE WhileNotEnabled(c)
          BY <3>1, <4>3, <5>2
             DEF WhileNotEnabled, JobInv, EnableHasNoEvent, FlaggedIsEvent
        <5>3. QED
          BY <3>8, <5>1, <5>2
      <4>5. QED
        BY <3>4, <4>2, <4>4 DEF JobInv
    <3>9. CASE EnableEvents(c)
      <4>1. /\ job[c] = "enable" /\ event = NoConn /\ Working(c)
            /\ connecting' = connecting
            /\ \/ raced' = raced /\ job'[c] = "loop"
               \/ raced' /\ job'[c] = "none" /\ event' = event
        BY <3>9 DEF EnableEvents, Working, JobInv, EnableHasNoEvent
      <4>2. \A d \in Conns \ {c} : /\ ~Working(d) /\ ~Working(d)'
                                   /\ job[d] \notin {"flag", "disable", "enable"}
        BY <3>5, <4>1 DEF Working, JobInv, OneConnects, FlaggedIsEvent
      <4>3. OneConnects' /\ ConnectingHasCause'
        BY <4>1, <4>2 DEF JobInv, OneConnects, ConnectingHasCause, Working
      <4>4. EnableHasNoEvent' /\ FlaggedIsEvent'
        BY <3>1, <4>1, <4>2 DEF EnableHasNoEvent, FlaggedIsEvent
      <4>5. QED
        BY <3>4, <4>3, <4>4 DEF JobInv
    <3>10. CASE ClearConnecting(c)
      <4>1. /\ job[c] = "clear" /\ job'[c] = "none" /\ event' = event
            /\ ~connecting' /\ raced' = raced /\ Working(c) /\ ~Working(c)'
        BY <3>10 DEF ClearConnecting, Working
      <4>2. \A d \in Conns : ~Working(d)'
        BY <3>5, <4>1 DEF JobInv, OneConnects
      <4>3. OneConnects' /\ ConnectingHasCause'
        BY <4>1, <4>2 DEF OneConnects, ConnectingHasCause
      <4>4. EnableHasNoEvent' /\ FlaggedIsEvent'
        BY <3>1, <4>1 DEF JobInv, EnableHasNoEvent, FlaggedIsEvent
      <4>5. QED
        BY <3>4, <4>3, <4>4 DEF JobInv
    <3>11. QED
      BY <2>5, <3>6, <3>7, <3>8, <3>9, <3>10 DEF JobStep
  <2>6. QED
    BY <2>1, <2>2, <2>3, <2>4, <2>5 DEF Next
<1>3. QED
  BY <1>1, <1>2, TypeInvariant, PTL DEF Spec

-----------------------------------------------------------------------------
(* Nothing is lost: who holds the connections that are open or watched, and *)
(* which job is going to notice that the event connection closed            *)

Held(c) == c \in ToSet(free) \/ c = event \/ \E g \in Borrowers : get[g].conn = c

OpenIsHeld == \A c \in Conns : c \in alive \cup watched => Held(c)
NewIsUnwatched == \A g \in Borrowers : get[g].pc = "watch" => get[g].conn \notin watched
EnablerNotices ==
    get[Enabler].pc = "got" /\ get[Enabler].conn \in watched \ alive
        => job[get[Enabler].conn] # "none"
ConnectorIsGone == \A c \in Conns : job[c] \in {"loop", "enable", "clear"} => ~Held(c)

HoldInv ==
    OpenIsHeld /\ NewIsUnwatched /\ EnablerNotices /\ ConnectorIsGone /\ ClosedIsNoticed

Before == PoolInv /\ JobInv /\ HoldInv

\* A borrower that keeps its connection, or has none and gets none.
LEMMA KeepingStep ==
    ASSUME Before, NEW g \in Borrowers, NEW pc \in GetPc \ {"watch"},
           Becomes(g, pc, get[g].conn),
           pc = "got" => get[g].conn \notin watched \ alive,
           UNCHANGED <<alive, watched, free, event, job, missed>>
    PROVE  HoldInv'
<1>1. /\ get'[g].conn = get[g].conn /\ get'[g].pc = pc
      /\ \A h \in Borrowers \ {g} : get'[h] = get[h]
  BY Becoming DEF Before, PoolInv, TypeInv, TypeOK
<1>2. \A c : Held(c)' <=> Held(c)
  BY <1>1 DEF Held
<1>3. OpenIsHeld' /\ ConnectorIsGone' /\ ClosedIsNoticed'
  BY <1>2 DEF Before, HoldInv, OpenIsHeld, ConnectorIsGone, ClosedIsNoticed, Unwatched
<1>4. NewIsUnwatched'
  BY <1>1 DEF Before, HoldInv, NewIsUnwatched
<1>5. EnablerNotices'
  <2>1. CASE g = Enabler
    BY <1>1, <2>1 DEF EnablerNotices
  <2>2. CASE g # Enabler
    BY <1>1, <2>2 DEF Before, HoldInv, EnablerNotices
  <2>3. QED
    BY <2>1, <2>2
<1>6. QED
  BY <1>3, <1>4, <1>5 DEF HoldInv

\* A borrower that closes what it has in hand.
LEMMA ClosingStep ==
    ASSUME Before, NEW g \in Borrowers, NEW pc \in GetPc \ {"watch"},
           Becomes(g, pc, NoConn), Close(get[g].conn),
           UNCHANGED <<free, event, missed>>
    PROVE  HoldInv'
<1> DEFINE x == get[g].conn
<1>0. /\ NoConn \notin Conns /\ TypeInv /\ job \in [Conns -> JobPc]
      /\ watched \subseteq Conns /\ ToSet(free) \subseteq Conns
      /\ x = NoConn \/ x \in Conns
  BY LibvirtPoolAssumption, FreeAreConns DEF Before, PoolInv, TypeInv, TypeOK, Conn
<1>1. /\ get'[g].conn = NoConn /\ get'[g].pc = pc
      /\ \A h \in Borrowers \ {g} : get'[h] = get[h]
  BY <1>0, Becoming DEF Conn
<1>2. /\ alive' = alive \ {x} /\ watched' = watched \ {x}
      /\ \A c \in Conns \ {x} : job'[c] = job[c]
      /\ \A c \in Conns : job'[c] = job[c] \/ job'[c] = "none"
  BY <1>0 DEF Close
<1>3. \A c \in Conns \ {x} : Held(c)' <=> Held(c)
  BY <1>0, <1>1 DEF Held
<1>4. x # NoConn => /\ x \notin ToSet(free) \cup {event}
                    /\ \A h \in Borrowers \ {g} : get[h].conn # x
  BY DEF Before, PoolInv, ConnHasOneHolder
<1>5. \A c \in Conns : c = x => ~Held(c)'
  BY <1>0, <1>1, <1>4 DEF Held
<1>6. OpenIsHeld'
  BY <1>2, <1>3 DEF Before, HoldInv, OpenIsHeld
<1>7. NewIsUnwatched'
  BY <1>1, <1>2 DEF Before, HoldInv, NewIsUnwatched
<1>8. EnablerNotices'
  <2>1. CASE g = Enabler
    BY <1>0, <1>1, <1>2, <2>1 DEF EnablerNotices
  <2>2. CASE g # Enabler
    BY <1>0, <1>1, <1>2, <2>2 DEF Before, HoldInv, EnablerNotices
  <2>3. QED
    BY <2>1, <2>2
<1>9. ConnectorIsGone'
  BY <1>0, <1>2, <1>3, <1>5 DEF Before, HoldInv, ConnectorIsGone
<1>10. ClosedIsNoticed'
  <2>1. CASE event \in Conns
    BY <1>0, <1>2, <1>4, <2>1 DEF Before, HoldInv, ClosedIsNoticed, Unwatched
  <2>2. CASE event \notin Conns
    BY <2>2 DEF ClosedIsNoticed
  <2>3. QED
    BY <2>1, <2>2
<1>11. QED
  BY <1>6, <1>7, <1>8, <1>9, <1>10 DEF HoldInv

\* The layer of who holds what: every step keeps HoldInv.
LEMMA HoldInvariant == Spec => []HoldInv
<1>1. Init => HoldInv
  <2> SUFFICES ASSUME Init PROVE HoldInv
    OBVIOUS
  <2>1. /\ alive = {1, 2} /\ watched = {1, 2} /\ free = <<2>> /\ event = 1
        /\ \A g \in Borrowers : get[g].pc = "idle" /\ get[g].conn = NoConn
        /\ \A c \in Conns : job[c] = "none"
    BY DEF Init, Idle, First, Second
  <2>2. ToSet(free) = {2}
    BY <2>1 DEF ToSet
  <2>3. QED
    BY <2>1, <2>2 DEF HoldInv, OpenIsHeld, Held, NewIsUnwatched, EnablerNotices,
                      ConnectorIsGone, ClosedIsNoticed, Unwatched
<1>2. Before /\ PoolInv' /\ [Next]_vars => HoldInv'
  <2> SUFFICES ASSUME Before, PoolInv', [Next]_vars
               PROVE  HoldInv'
    OBVIOUS
  <2>0. /\ PoolInv /\ JobInv /\ HoldInv /\ TypeInv /\ HandsMatchPc /\ ConnHasOneHolder
        /\ NoConn \notin Conns /\ Enabler \in Borrowers /\ Users \subseteq Borrowers
        /\ Enabler \notin Users
        /\ alive \subseteq Conns /\ watched \subseteq Conns /\ ToSet(free) \subseteq Conns
        /\ free \in Seq(Conns) /\ job \in [Conns -> JobPc]
        /\ event = NoConn \/ event \in Conns
        /\ \A g \in Borrowers : get[g].conn = NoConn \/ get[g].conn \in Conns
    BY LibvirtPoolAssumption, FreeAreConns DEF Before, PoolInv, TypeInv, TypeOK, Conn
  <2> USE DEF At, GetPc
  <2>1. ASSUME NEW g \in Borrowers, LookAtSize(g) PROVE HoldInv'
    BY <2>0, <2>1, KeepingStep DEF LookAtSize, Keeps
  <2>2. ASSUME NEW u \in Users, BeginGet(u) PROVE HoldInv'
    <3>1. get[u].conn = NoConn
      BY <2>0, <2>2 DEF BeginGet, HandsMatchPc
    <3>2. QED
      BY <2>0, <2>2, <3>1, KeepingStep DEF BeginGet
  <2>3. ASSUME NEW g \in Borrowers, OpenConn(g) PROVE HoldInv'
    <3>1. get[g].conn = NoConn
      BY <2>0, <2>3 DEF OpenConn, HandsMatchPc
    <3>2. UNCHANGED <<watched, free, event, job, missed>>
      BY <2>3 DEF OpenConn
    <3>3. CASE ~up
      <4>1. /\ Becomes(g, "idle", NoConn) \/ Becomes(g, "got", NoConn)
            /\ alive' = alive
        BY <2>3, <3>3 DEF OpenConn, EndsWithout
      <4>2. QED
        BY <2>0, <3>1, <3>2, <4>1, KeepingStep
    <3>4. CASE up
      <4>1. PICK c \in Conns \ Known : Becomes(g, "watch", c) /\ alive' = alive \cup {c}
        BY <2>3, <3>4 DEF OpenConn
      <4>2. /\ get'[g].conn = c /\ get'[g].pc = "watch"
            /\ \A h \in Borrowers \ {g} : get'[h] = get[h]
        BY <2>0, <4>1, Becoming DEF Conn
      <4>3. ~Held(c) /\ job[c] = "none" /\ c # event
        BY <4>1 DEF Known, Held
      <4>4. c \notin watched
        BY <2>0, <4>1, <4>3 DEF HoldInv, OpenIsHeld
      <4>5. Held(c)' /\ \A d \in Conns \ {c} : Held(d)' <=> Held(d)
        BY <2>0, <3>1, <3>2, <4>2 DEF Held
      <4>6. OpenIsHeld'
        BY <2>0, <3>2, <4>1, <4>5 DEF HoldInv, OpenIsHeld
      <4>7. NewIsUnwatched'
        BY <2>0, <3>2, <4>2, <4>4 DEF HoldInv, NewIsUnwatched
      <4>8. EnablerNotices'
        <5>1. CASE g = Enabler
          BY <4>2, <5>1 DEF EnablerNotices
        <5>2. CASE g # Enabler
          BY <2>0, <3>2, <4>1, <4>2, <5>2 DEF HoldInv, EnablerNotices
        <5>3. QED
          BY <5>1, <5>2
      <4>9. ConnectorIsGone'
        BY <2>0, <3>2, <4>3, <4>5 DEF HoldInv, ConnectorIsGone
      <4>10. ClosedIsNoticed'
        BY <2>0, <3>2, <4>1, <4>3 DEF HoldInv, ClosedIsNoticed, Unwatched
      <4>11. QED
        BY <4>6, <4>7, <4>8, <4>9, <4>10 DEF HoldInv
    <3>5. QED
      BY <3>3, <3>4
  <2>4. ASSUME NEW g \in Borrowers, WatchConn(g) PROVE HoldInv'
    <3> DEFINE x == get[g].conn
    <3>1. /\ get[g].pc = "watch" /\ x \in Conns /\ x \notin watched
      BY <2>0, <2>4 DEF WatchConn, HandsMatchPc, HoldInv, NewIsUnwatched
    <3>2. /\ UNCHANGED <<alive, free, event, job, missed>>
          /\ watched' = watched \cup ({x} \cap alive)
          /\ Becomes(g, "got", x)
      BY <2>4 DEF WatchConn, Keeps
    <3>3. /\ get'[g].conn = x /\ get'[g].pc = "got"
          /\ \A h \in Borrowers \ {g} : get'[h] = get[h]
      BY <2>0, <3>1, <3>2, Becoming DEF Conn
    <3>4. \A c : Held(c)' <=> Held(c)
      BY <3>2, <3>3 DEF Held
    <3>5. x # event /\ Held(x) /\ \A h \in Borrowers \ {g} : get[h].conn # x
      BY <2>0, <3>1 DEF ConnHasOneHolder, Held
    <3>6. OpenIsHeld' /\ ConnectorIsGone'
      BY <2>0, <3>2, <3>4, <3>5 DEF HoldInv, OpenIsHeld, ConnectorIsGone
    <3>7. NewIsUnwatched'
      BY <2>0, <3>2, <3>3, <3>5 DEF HoldInv, NewIsUnwatched
    <3>8. EnablerNotices'
      <4>1. CASE g = Enabler
        BY <3>1, <3>2, <3>3, <4>1 DEF EnablerNotices
      <4>2. CASE g # Enabler
        BY <2>0, <3>2, <3>3, <3>5, <4>2 DEF HoldInv, EnablerNotices
      <4>3. QED
        BY <4>1, <4>2
    <3>9. ClosedIsNoticed'
      BY <2>0, <3>2, <3>5 DEF HoldInv, ClosedIsNoticed, Unwatched
    <3>10. QED
      BY <3>6, <3>7, <3>8, <3>9 DEF HoldInv
  <2>5. ASSUME NEW g \in Borrowers, PopConn(g) PROVE HoldInv'
    <3>1. get[g].conn = NoConn
      BY <2>0, <2>5 DEF PopConn, HandsMatchPc
    <3>2. UNCHANGED <<alive, watched, event, job, missed>>
      BY <2>5 DEF PopConn
    <3>3. CASE free = <<>>
      <4>1. /\ Becomes(g, "idle", NoConn) \/ Becomes(g, "raised", NoConn)
            /\ free' = free
        BY <2>5, <3>3 DEF PopConn, EndsWithout
      <4>2. QED
        BY <2>0, <3>1, <3>2, <4>1, KeepingStep
    <3>4. CASE free # <<>>
      <4>1. Becomes(g, "check", Last(free)) /\ free' = Front(free)
        BY <2>5, <3>4 DEF PopConn
      <4>2. /\ Last(free) \in ToSet(free) /\ Last(free) \in Conns
            /\ ToSet(free') = ToSet(free) \ {Last(free)}
        BY <2>0, <3>4, <4>1, PopProperties DEF ConnHasOneHolder
      <4>3. /\ get'[g].conn = Last(free) /\ get'[g].pc = "check"
            /\ \A h \in Borrowers \ {g} : get'[h] = get[h]
        BY <2>0, <4>1, <4>2, Becoming DEF Conn
      <4>4. \A c \in Conns : Held(c)' <=> Held(c)
        BY <2>0, <3>1, <3>2, <4>2, <4>3 DEF Held
      <4>5. OpenIsHeld' /\ ConnectorIsGone' /\ ClosedIsNoticed'
        BY <2>0, <3>2, <4>4
           DEF HoldInv, OpenIsHeld, ConnectorIsGone, ClosedIsNoticed, Unwatched
      <4>6. NewIsUnwatched'
        BY <2>0, <3>2, <4>3 DEF HoldInv, NewIsUnwatched
      <4>7. EnablerNotices'
        <5>1. CASE g = Enabler
          BY <4>3, <5>1 DEF EnablerNotices
        <5>2. CASE g # Enabler
          BY <2>0, <3>2, <4>3, <5>2 DEF HoldInv, EnablerNotices
        <5>3. QED
          BY <5>1, <5>2
      <4>8. QED
        BY <4>5, <4>6, <4>7 DEF HoldInv
    <3>5. QED
      BY <3>3, <3>4
  <2>6. ASSUME NEW g \in Borrowers, CheckConn(g) PROVE HoldInv'
    <3>1. UNCHANGED <<free, event, missed>>
      BY <2>6 DEF CheckConn
    <3>2. CASE get[g].conn \in alive
      BY <2>0, <2>6, <3>1, <3>2, KeepingStep DEF CheckConn, Keeps, Leave
    <3>3. CASE get[g].conn \notin alive
      <4>1. /\ Becomes(g, "idle", NoConn) \/ Becomes(g, "got", NoConn)
            /\ Close(get[g].conn)
        BY <2>6, <3>3 DEF CheckConn, EndsWithout
      <4>2. QED
        BY <3>1, <4>1, ClosingStep
    <3>4. QED
      BY <3>2, <3>3
  <2>7. ASSUME NEW u \in Users, LeaveConn(u) PROVE HoldInv'
    BY <2>0, <2>7, ClosingStep DEF LeaveConn
  <2>8. ASSUME NEW u \in Users, BeginPut(u) PROVE HoldInv'
    <3>1. UNCHANGED <<free, event, missed>>
      BY <2>8 DEF BeginPut
    <3>2. CASE get[u].conn \in alive
      BY <2>0, <2>8, <3>1, <3>2, KeepingStep DEF BeginPut, Keeps, Leave
    <3>3. CASE get[u].conn \notin alive
      BY <2>0, <2>8, <3>1, <3>3, ClosingStep DEF BeginPut
    <3>4. QED
      BY <3>2, <3>3
  <2>9. ASSUME NEW u \in Users, PutConn(u) PROVE HoldInv'
    <3> DEFINE x == get[u].conn
    <3>1. UNCHANGED <<event, missed>> /\ Becomes(u, "idle", NoConn) /\ x \in Conns
      BY <2>0, <2>9 DEF PutConn, HandsMatchPc
    <3>2. CASE Len(free) < MaxSize
      <4>1. UNCHANGED <<alive, watched, job>> /\ free' = Append(free, x)
        BY <2>9, <3>2 DEF PutConn, Leave
      <4>2. ToSet(free') = ToSet(free) \cup {x}
        BY <2>0, <3>1, <4>1, ToSetAppend
      <4>3. /\ get'[u].conn = NoConn /\ get'[u].pc = "idle"
            /\ \A h \in Borrowers \ {u} : get'[h] = get[h]
        BY <2>0, <3>1, Becoming DEF Conn
      <4>4. \A c \in Conns : Held(c)' <=> Held(c)
        BY <2>0, <3>1, <4>2, <4>3 DEF Held
      <4>5. OpenIsHeld' /\ ConnectorIsGone' /\ ClosedIsNoticed'
        BY <2>0, <3>1, <4>1, <4>4
           DEF HoldInv, OpenIsHeld, ConnectorIsGone, ClosedIsNoticed, Unwatched
      <4>6. NewIsUnwatched' /\ EnablerNotices'
        BY <2>0, <4>1, <4>3 DEF HoldInv, NewIsUnwatched, EnablerNotices
      <4>7. QED
        BY <4>5, <4>6 DEF HoldInv
    <3>3. CASE ~(Len(free) < MaxSize)
      <4>1. Close(x) /\ free' = free
        BY <2>9, <3>3 DEF PutConn
      <4>2. QED
        BY <2>0, <3>1, <4>1, ClosingStep
    <3>4. QED
      BY <3>2, <3>3
  <2>10. CASE LoseConns
    <3>1. PICK lost \in SUBSET alive : Lose(lost)
      BY <2>10 DEF LoseConns
    <3>2. UNCHANGED <<watched, free, get, event, missed>>
      BY <2>10 DEF LoseConns
    <3>3. /\ alive' = alive \ lost
          /\ \A c \in Conns : job'[c] = IF c \in lost \cap watched THEN "due" ELSE job[c]
      BY <3>1 DEF Lose
    <3>4. \A c : Held(c)' <=> Held(c)
      BY <3>2 DEF Held
    <3>5. OpenIsHeld' /\ NewIsUnwatched' /\ ConnectorIsGone'
      BY <2>0, <3>2, <3>3, <3>4 DEF HoldInv, OpenIsHeld, NewIsUnwatched, ConnectorIsGone
    <3>6. EnablerNotices'
      BY <2>0, <3>2, <3>3 DEF HoldInv, EnablerNotices
    <3>7. ClosedIsNoticed'
      BY <2>0, <3>2, <3>3 DEF HoldInv, ClosedIsNoticed, Unwatched
    <3>8. QED
      BY <3>5, <3>6, <3>7 DEF HoldInv
  <2>11. CASE StartLibvirtd \/ UNCHANGED vars
    BY <2>0, <2>11
       DEF StartLibvirtd, vars, HoldInv, OpenIsHeld, NewIsUnwatched, EnablerNotices,
           ConnectorIsGone, ClosedIsNoticed, Unwatched, Held
  <2>12. ASSUME NEW c \in Conns, JobStep(c) PROVE HoldInv'
    <3>1. /\ \A d \in Conns \ {c} : job'[d] = job[d]
          /\ free' = free
      BY <2>0, <2>12 DEF JobStep, JobGoes, CheckEventConn, SetConnecting, DisableEvents,
                         WhileNotEnabled, EnableEvents, ClearConnecting
    <3> USE DEF JobGoes
    <3>2. CASE CheckEventConn(c) \/ SetConnecting(c) \/ ClearConnecting(c)
      <4>1. /\ UNCHANGED <<alive, watched, get, event>>
            /\ job'[c] \notin {"loop", "enable", "clear"}
            /\ missed => missed'
        <5>1. missed => missed'
          BY <3>2 DEF CheckEventConn, SetConnecting, ClearConnecting
        <5>2. QED
          BY <2>0, <3>2, <5>1 DEF CheckEventConn, SetConnecting, ClearConnecting
      <4>2. \A d : Held(d)' <=> Held(d)
        BY <3>1, <4>1 DEF Held
      <4>3. OpenIsHeld' /\ NewIsUnwatched' /\ ConnectorIsGone'
        BY <2>0, <3>1, <4>1, <4>2 DEF HoldInv, OpenIsHeld, NewIsUnwatched, ConnectorIsGone
      <4>4. EnablerNotices'
        <5>1. CASE CheckEventConn(c)
          BY <4>1, <5>1 DEF CheckEventConn, Enabling, EnablerNotices
        <5>2. CASE SetConnecting(c)
          <6>1. event = c
            BY <2>0, <5>2 DEF SetConnecting, JobInv, FlaggedIsEvent
          <6>2. get[Enabler].conn # c
            BY <2>0, <6>1 DEF ConnHasOneHolder
          <6>3. QED
            BY <2>0, <3>1, <4>1, <6>2 DEF HoldInv, EnablerNotices
        <5>3. CASE ClearConnecting(c)
          <6>1. get[Enabler].conn # c
            BY <2>0, <5>3 DEF ClearConnecting, HoldInv, ConnectorIsGone, Held
          <6>2. QED
            BY <2>0, <3>1, <4>1, <6>1 DEF HoldInv, EnablerNotices
        <5>4. QED
          BY <3>2, <5>1, <5>2, <5>3
      <4>5. ClosedIsNoticed'
        <5>1. CASE event # c
          BY <2>0, <3>1, <4>1, <5>1 DEF HoldInv, ClosedIsNoticed, Unwatched
        <5>2. CASE event = c
          <6>1. ~ClearConnecting(c)
            BY <2>0, <5>2 DEF ClearConnecting, HoldInv, ConnectorIsGone, Held
          <6>2. job'[c] # "none" \/ missed'
            BY <2>0, <3>2, <5>2, <6>1 DEF CheckEventConn, SetConnecting
          <6>3. QED
            BY <4>1, <5>2, <6>2 DEF ClosedIsNoticed
        <5>3. QED
          BY <5>1, <5>2
      <4>6. QED
        BY <4>3, <4>4, <4>5 DEF HoldInv
    <3>3. CASE DisableEvents(c)
      <4>1. /\ event = c /\ event' = NoConn /\ UNCHANGED <<get, missed>>
            /\ alive' = alive \ {c} /\ watched' = watched \ {c} /\ job'[c] = "loop"
            /\ ~Enabling
        BY <2>0, <3>3 DEF DisableEvents, JobInv, FlaggedIsEvent
      <4>2. ~Held(c)' /\ \A d \in Conns \ {c} : Held(d)' <=> Held(d)
        BY <2>0, <3>1, <4>1 DEF ConnHasOneHolder, Held
      <4>3. OpenIsHeld' /\ NewIsUnwatched' /\ ConnectorIsGone'
        BY <2>0, <3>1, <4>1, <4>2 DEF HoldInv, OpenIsHeld, NewIsUnwatched, ConnectorIsGone
      <4>4. EnablerNotices' /\ ClosedIsNoticed'
        BY <2>0, <4>1 DEF Enabling, EnablerNotices, ClosedIsNoticed
      <4>5. QED
        BY <4>3, <4>4 DEF HoldInv
    <3>4. CASE WhileNotEnabled(c)
      <4>1. /\ UNCHANGED <<alive, watched, event, missed>>
            /\ job[c] = "loop" /\ job'[c] \in {"enable", "clear"} /\ ~Enabling
        BY <2>0, <3>4 DEF WhileNotEnabled
      <4>2. get[Enabler].conn = NoConn
        BY <2>0, <4>1 DEF Enabling, HandsMatchPc
      <4>3. /\ get'[Enabler].conn = NoConn /\ get'[Enabler].pc # "got"
            /\ get'[Enabler].pc # "watch"
            /\ \A h \in Borrowers \ {Enabler} : get'[h] = get[h]
        <5>1. CASE event = NoConn
          BY <2>0, <3>4, <5>1, Becoming DEF WhileNotEnabled, Conn
        <5>2. CASE event # NoConn
          BY <3>4, <4>1, <4>2, <5>2 DEF WhileNotEnabled, Enabling
        <5>3. QED
          BY <5>1, <5>2
      <4>4. \A d \in Conns : Held(d)' <=> Held(d)
        BY <2>0, <3>1, <4>1, <4>2, <4>3 DEF Held
      <4>5. OpenIsHeld' /\ NewIsUnwatched' /\ ConnectorIsGone'
        BY <2>0, <3>1, <4>1, <4>3, <4>4
           DEF HoldInv, OpenIsHeld, NewIsUnwatched, ConnectorIsGone
      <4>6. EnablerNotices' /\ ClosedIsNoticed'
        BY <2>0, <3>1, <4>1, <4>3
           DEF HoldInv, EnablerNotices, ClosedIsNoticed, Unwatched
      <4>7. QED
        BY <4>5, <4>6 DEF HoldInv
    <3>5. CASE EnableEvents(c)
      <4>1. /\ event = NoConn /\ job[c] = "enable"
            /\ UNCHANGED <<alive, watched, missed>>
            /\ Becomes(Enabler, "idle", NoConn)
            /\ job'[c] \in {"loop", "none"}
        BY <2>0, <3>5 DEF EnableEvents, JobInv, EnableHasNoEvent
      <4>2. /\ get'[Enabler].conn = NoConn /\ get'[Enabler].pc = "idle"
            /\ \A h \in Borrowers \ {Enabler} : get'[h] = get[h]
        BY <2>0, <4>1, Becoming DEF Conn
      <4>3. event' = get[Enabler].conn
        BY <2>0, <3>5, <4>1 DEF EnableEvents, HandsMatchPc
      <4>4. \A d \in Conns : Held(d)' <=> Held(d)
        BY <2>0, <3>1, <4>1, <4>2, <4>3 DEF Held
      <4>5. OpenIsHeld' /\ NewIsUnwatched' /\ ConnectorIsGone'
        BY <2>0, <3>1, <4>1, <4>2, <4>4
           DEF HoldInv, OpenIsHeld, NewIsUnwatched, ConnectorIsGone
      <4>6. EnablerNotices'
        BY <4>2 DEF EnablerNotices
      <4>7. ClosedIsNoticed'
        <5>1. CASE get[Enabler].pc = "got"
          <6>1. get[Enabler].conn # c
            BY <2>0, <4>1 DEF HoldInv, ConnectorIsGone, Held
          <6>2. QED
            BY <2>0, <3>1, <4>1, <4>3, <5>1, <6>1
               DEF HoldInv, EnablerNotices, ClosedIsNoticed, Unwatched
        <5>2. CASE get[Enabler].pc = "raised"
          BY <2>0, <4>3, <5>2 DEF HandsMatchPc, ClosedIsNoticed
        <5>3. QED
          BY <3>5, <5>1, <5>2 DEF EnableEvents
      <4>8. QED
        BY <4>5, <4>6, <4>7 DEF HoldInv
    <3>6. QED
      BY <2>12, <3>2, <3>3, <3>4, <3>5 DEF JobStep
  <2>13. QED
    BY <2>1, <2>2, <2>3, <2>4, <2>5, <2>6, <2>7, <2>8, <2>9, <2>10, <2>11, <2>12
       DEF Next, GetStep, UserStep
<1>3. QED
  BY <1>1, <1>2, PoolInvariant, JobInvariant, PTL DEF Spec, Before

-----------------------------------------------------------------------------
(* The theorems                                                            *)

\* The pool keeps its types, its list stays within maxsize however many threads
\* put at once, and no connection comes into two hands although the list is
\* looked at and popped under two holds of the lock (ConnectionPool).
THEOREM PoolIsConsistent == Spec => []Consistent
<1>1. PoolInv => Consistent
  BY DEF PoolInv, TypeInv, Consistent
<1>2. QED
  BY <1>1, PoolInvariant, PTL

\* An open connection is with somebody or in the list, a close of the event
\* connection has a job that notices it or a known reason, and CONNECTING stays
\* behind only through the race of get (put, LibvirtEventConnCloseHandler).
THEOREM NoneIsLost == Spec => []NothingIsLost
<1>1. PoolInv /\ JobInv /\ HoldInv => NothingIsLost
  <2> SUFFICES ASSUME PoolInv, JobInv, HoldInv PROVE NothingIsLost
    OBVIOUS
  <2>1. NoConnIsLost
    <3>1. alive \subseteq Conns
      BY DEF PoolInv, TypeInv, TypeOK
    <3>2. QED
      BY <3>1 DEF HoldInv, OpenIsHeld, Held, NoConnIsLost
  <2>2. StuckOnlyByRace
    BY DEF JobInv, ConnectingHasCause, Working, StuckOnlyByRace, Stuck
  <2>3. QED
    BY <2>1, <2>2 DEF HoldInv, NothingIsLost
<1>2. QED
  BY <1>1, PoolInvariant, JobInvariant, HoldInvariant, PTL

HIDE DEF conns, history, Borrowers

-----------------------------------------------------------------------------
(***************************************************************************)
(* Part 2.  Domains: the agent's list has what libvirt has defined, a      *)
(* source that was given to a domain stays, and the answer of an           *)
(* undisturbed request tells what it did.  The invariant has, for each     *)
(* domain, the room that the requests under way may still fill, the way of *)
(* the one call that works on it, and for an undisturbed call the story of *)
(* what it found and did.                                                  *)
(***************************************************************************)

(* The invariant                                                           *)

ItemSources(r) == {r.items[i].src : i \in DOMAIN r.items}

\* A request names each disk and each source once.
RequestSound(r) ==
    /\ r \in Request
    /\ Len(r.items) <= 2 /\ Len(r.items) <= MaxDisks
    /\ \A i, j \in DOMAIN r.items : i # j =>
          r.items[i].dev # r.items[j].dev /\ r.items[i].src # r.items[j].src
    /\ r.op \in {"MOUNT", "UMOUNT", "UPDATE"} => Len(r.items) = 1

MaybeDocument == Document \cup {Undefined}
DomCalls == [pc : Pc, req : Request, conn : BOOLEAN, failed : BOOLEAN,
             read : Document, doc : Document, ok : Answers,
             before : [listed : BOOLEAN, defined : MaybeDocument, seen : MaybeDocument]]

\* There are names for the disks that a request adds to a document.
Disked(d) == Cardinality(DOMAIN d.disks)
Fits(d, r) == r.op = "ADD" => Disked(d) + Len(r.items) <= MaxDisks

\* What a call is, wherever it has got to and whatever runs beside it.
DomCallSound(r) ==
    /\ RequestSound(r.req)
    /\ r.pc # "idle" => r.ok = "none"
    /\ r.pc \in {"define", "append"} => r.req.op = "Create"
    /\ r.pc \in {"undefine", "pop"} => r.req.op = "Delete"
    /\ r.pc \in {"read", "redefine"} => r.req.op \in Modifications
    /\ r.pc \in {"get", "define", "undefine", "read", "redefine"} => r.conn
    /\ r.pc = "redefine" => r.doc = Modified(r.read, r.req) /\ Fits(r.read, r.req)

DomTyped ==
    /\ list \in SUBSET Uuids
    /\ defined \in [Uuids -> MaybeDocument] /\ live \in [Uuids -> MaybeDocument]
    /\ call \in [Callers -> DomCalls] /\ \A c \in Callers : DomCallSound(call[c])
    /\ calls \in 0..MaxCalls /\ alone \in SUBSET Callers
    /\ kept \in [Uuids -> SUBSET Sources]
    /\ dirty \in SUBSET Uuids /\ stale \in SUBSET Uuids

\* The sources of the requests under way, and of those that have yet to add
\* them to a document; the documents there are of a domain.
AskedFor(u) == {s \in Sources : \E c \in Under(u) : s \in ItemSources(call[c].req)}
Adding(r) == r.pc \in {"get", "exists", "define", "read"} /\ r.req.op \in {"Create", "ADD"}
Pending(u) == {s \in Sources : \E c \in Under(u) :
                  Adding(call[c]) /\ s \in ItemSources(call[c].req)}
Docs(u) == {defined[u], live[u], Nothing} \cup {call[c].doc : c \in Under(u)}

\* Names are left for all the disks that the requests under way may add.
SizeOf(u) ==
    /\ IsFiniteSet(AskedFor(u))
    /\ \A d \in Docs(u) : d # Undefined => Disked(d) + Cardinality(Pending(u)) <= MaxDisks
    /\ \A c, d \in Under(u) : c # d =>
          ItemSources(call[c].req) \cap ItemSources(call[d].req) = {}
SizeInv == \A u \in Uuids : SizeOf(u)

\* What a call that is the only one for its domain knows of the list L and of
\* the definitions D.
Way(r, L, D) ==
    LET u == r.req.uuid
    IN  /\ r.pc \in {"get", "exists"} => (u \in L <=> D[u] # Undefined)
        /\ r.pc = "define" => u \notin L /\ D[u] = Undefined
        /\ r.pc = "append" => u \notin L /\ (r.conn <=> D[u] # Undefined)
        /\ r.pc = "undefine" => u \in L /\ D[u] # Undefined
        /\ r.pc = "pop" => u \in L /\ (r.conn <=> D[u] = Undefined)
        /\ r.pc \in {"read", "redefine"} => u \in L /\ D[u] # Undefined

ListInv ==
    \A u \in Uuids : u \notin dirty =>
        /\ \A c, d \in Under(u) : c = d
        /\ Under(u) = {} => (u \in list <=> defined[u] # Undefined)
        /\ \A c \in Under(u) : Way(call[c], list, defined)

KeptInv ==
    \A u \in Uuids : u \notin dirty \cup stale =>
        /\ kept[u] \subseteq SourcesOf(defined[u])
        /\ \A c \in Under(u) : DomAt(c, "redefine") => call[c].read = defined[u]

\* The story of an undisturbed call.
Undone(r, L, D) ==
    LET u == r.req.uuid
        same == (u \in L <=> r.before.listed)
    IN  \/ D[u] = r.before.defined /\ same
        \/ /\ r.failed /\ r.conn /\ r.ok \in {"LIBVIRT_ERROR", "raised"}
           /\ D[u] = Goal(r)
           /\ \/ same
              \/ r.ok = "raised" /\ (u \in L <=> r.req.op # "Delete")
Told(r, L, D) ==
    LET u == r.req.uuid
    IN  /\ r.ok = "OK" /\ r.conn =>
             CASE r.req.op = "Create" ->
                    /\ u \in L /\ D[u] # Undefined
                    /\ \A i \in DOMAIN r.req.items :
                         \/ r.req.items[i].src \in SourcesOf(D[u])
                         \/ Displaced(r.req.items, i)
               [] r.req.op = "Delete" -> u \notin L /\ D[u] = Undefined
               [] OTHER -> u \in L /\ Asked(r, D[u])
        /\ r.ok \notin {"none", "OK"} => Undone(r, L, D)
Story(r, L, D, V) ==
    LET u == r.req.uuid
    IN  /\ r.pc \in {"get", "exists", "define", "undefine", "read", "redefine"} =>
              D[u] = r.before.defined /\ (u \in L <=> r.before.listed)
        /\ r.pc \in {"get", "exists", "read"} =>
              r.before.seen = IF V[u] # Undefined THEN V[u] ELSE D[u]
        /\ r.pc = "redefine" => r.read = r.before.seen
        /\ r.pc \in {"define", "append"} => u \notin L
        /\ r.pc \in {"undefine", "pop", "read", "redefine"} => u \in L
        /\ r.pc = "append" /\ r.conn => D[u] = Created(r.req)
        /\ r.pc = "pop" /\ r.conn => D[u] = Undefined
        /\ r.pc = "idle" => Told(r, L, D)

AloneInv ==
    \A c \in alone : /\ \A d \in Callers : d # c => DomAt(d, "idle")
                     /\ Story(call[c], list, defined, live)

DomInv == DomTyped /\ SizeInv /\ ListInv /\ KeptInv /\ AloneInv

-----------------------------------------------------------------------------
(* Documents                                                               *)

LEMMA DomainConstants ==
    /\ MaxDisks \in Nat \ {0} /\ MaxCalls \in Nat /\ Uuids # {}
    /\ Empty \notin Sources /\ Undefined \notin Document /\ Devs = 1..MaxDisks
BY DomainsAssumption, UndefinedAssumption DEF Devs

LEMMA DisksAre ==
    ASSUME NEW f
    PROVE  f \in Disks <=> \E D \in SUBSET Devs : f \in [D -> Sources \cup {Empty}]
BY DEF Disks

LEMMA DocumentIs ==
    ASSUME NEW d \in Document
    PROVE  /\ d # Undefined /\ d.nics \in Interfaces
           /\ DOMAIN d.disks \in SUBSET Devs
           /\ d.disks \in [DOMAIN d.disks -> Sources \cup {Empty}]
           /\ IsFiniteSet(DOMAIN d.disks) /\ Disked(d) \in Nat
           /\ SourcesOf(d) = {d.disks[i] : i \in DOMAIN d.disks} \ {Empty}
<1>1. d # Undefined /\ d.nics \in Interfaces /\ d.disks \in Disks
  BY DomainConstants DEF Document
<1>2. PICK D \in SUBSET Devs : d.disks \in [D -> Sources \cup {Empty}]
  BY <1>1, DisksAre
<1>3. DOMAIN d.disks = D
  BY <1>2
<1>4. IsFiniteSet(Devs)
  BY DomainConstants, FS_Interval
<1>5. IsFiniteSet(D)
  BY <1>4, FS_Subset
<1>6. Cardinality(D) \in Nat
  BY <1>5, FS_CardinalityType
<1>7. QED
  BY <1>1, <1>2, <1>3, <1>5, <1>6 DEF Disked, SourcesOf

LEMMA IsDocument ==
    ASSUME NEW f, NEW ns \in Interfaces, NEW D \in SUBSET Devs, f \in [D -> Sources \cup {Empty}]
    PROVE  /\ [disks |-> f, nics |-> ns] \in Document
           /\ DOMAIN f = D
BY DisksAre DEF Document

LEMMA NothingIs == Nothing \in Document /\ Disked(Nothing) = 0 /\ DOMAIN Nothing.disks = {}
                   /\ Nothing.nics = {} /\ SourcesOf(Nothing) = {}
<1>1. Nothing.disks \in [{} -> Sources \cup {Empty}] /\ Nothing.nics = {}
  BY DEF Nothing
<1>2. Nothing = [disks |-> Nothing.disks, nics |-> Nothing.nics]
  BY DEF Nothing
<1>3. {} \in SUBSET Devs /\ {} \in Interfaces
  BY DEF Interfaces
<1> HIDE DEF Nothing
<1>4. Nothing \in Document /\ DOMAIN Nothing.disks = {}
  <2> DEFINE f == Nothing.disks
             ns == Nothing.nics
  <2>1. f \in [{} -> Sources \cup {Empty}] /\ ns \in Interfaces /\ Nothing = [disks |-> f, nics |-> ns]
    BY <1>1, <1>2, <1>3
  <2> HIDE DEF f, ns
  <2>2. [disks |-> f, nics |-> ns] \in Document /\ DOMAIN f = {}
    BY <1>3, <2>1, IsDocument
  <2>3. QED
    BY <2>1, <2>2 DEF f
<1>5. Disked(Nothing) = 0
  BY <1>4, FS_EmptySet DEF Disked
<1>6. SourcesOf(Nothing) = {}
  BY <1>4, DocumentIs
<1>7. QED
  BY <1>1, <1>4, <1>5, <1>6

-----------------------------------------------------------------------------
(* XmlManagerDomain: what becomes of the disks                             *)

\* The disks in order are the disks, under the names 1 to their number.
Lists(h, f, D, n, X) ==
    /\ n \in Nat /\ n <= MaxDisks /\ h \in [1..n -> X]
    /\ \A k \in 1..n : \E i \in D : h[k] = f[i]
    /\ \A i \in D : \E k \in 1..n : h[k] = f[i]

LEMMA InOrderIs ==
    ASSUME NEW D \in SUBSET Devs, NEW X, NEW f \in [D -> X], NEW n, n = Cardinality(D)
    PROVE  Lists(InOrder(f), f, D, n, X)
<1> DEFINE Upto(i) == {j \in D : j <= i}
           pos == [i \in D |-> Cardinality(Upto(i))]
<1>1. /\ IsFiniteSet(D) /\ n \in Nat /\ n <= MaxDisks /\ D \subseteq Nat
      /\ IsFiniteSet(1..n) /\ Cardinality(1..n) = n
  <2>1. IsFiniteSet(Devs) /\ Cardinality(Devs) = MaxDisks
    BY DomainConstants, FS_Interval
  <2>2. IsFiniteSet(D) /\ n <= MaxDisks
    BY <2>1, FS_Subset
  <2>3. n \in Nat
    BY <2>2, FS_CardinalityType
  <2>4. IsFiniteSet(1..n) /\ Cardinality(1..n) = n
    BY <2>3, FS_Interval
  <2>5. D \subseteq Nat
    BY DomainConstants
  <2>6. QED
    BY <2>2, <2>3, <2>4, <2>5
<1>2. ASSUME NEW i \in D
      PROVE  IsFiniteSet(Upto(i)) /\ Cardinality(Upto(i)) \in 1..n
  <2>1. Upto(i) \in SUBSET D /\ i \in Upto(i)
    BY <1>1
  <2> HIDE DEF Upto
  <2>2. IsFiniteSet(Upto(i)) /\ Cardinality(Upto(i)) <= n
    BY <1>1, <2>1, FS_Subset
  <2>3. Cardinality(Upto(i)) \in Nat /\ Cardinality(Upto(i)) # 0
    BY <2>1, <2>2, FS_CardinalityType, FS_EmptySet
  <2>4. QED
    BY <1>1, <2>2, <2>3
<1>3. ASSUME NEW i \in D, NEW j \in D, i < j
      PROVE  Cardinality(Upto(i)) # Cardinality(Upto(j))
  <2>1. Upto(i) \in SUBSET Upto(j) /\ Upto(i) # Upto(j)
    <3>1. j \in Upto(j) /\ j \notin Upto(i)
      BY <1>1, <1>3
    <3>2. \A k \in D : k <= i => k <= j
      BY <1>1, <1>3
    <3>3. QED
      BY <3>1, <3>2
  <2> HIDE DEF Upto
  <2>2. QED
    BY <1>2, <2>1, FS_Subset
<1> HIDE DEF Upto
<1>4. pos \in Injection(D, 1..n)
  <2>1. \A i, j \in D : pos[i] = pos[j] => i = j
    <3>1. ASSUME NEW i \in D, NEW j \in D, pos[i] = pos[j], i # j PROVE FALSE
      <4>1. i < j \/ j < i
        BY <1>1, <3>1
      <4>2. QED
        BY <1>3, <3>1, <4>1
    <3>2. QED
      BY <3>1
  <2>2. pos \in [D -> 1..n]
    BY <1>2
  <2>3. QED
    BY <2>1, <2>2 DEF Injection, IsInjective
<1>5. pos \in Surjection(D, 1..n)
  BY <1>1, <1>4, FS_Injection
<1>6. /\ \A k \in 1..n : \E i \in D : pos[i] = k
      /\ \A i \in D : pos[i] \in 1..n
      /\ \A i, j \in D : pos[i] = pos[j] => i = j
  BY <1>4, <1>5 DEF Injection, IsInjective, Surjection
<1>7. \A i \in D : pos[i] = Cardinality(Upto(i))
  OBVIOUS
<1> HIDE DEF pos
<1> DEFINE at(k) == CHOOSE i \in D : Cardinality(Upto(i)) = k
<1>8. \A k \in 1..n : at(k) \in D /\ pos[at(k)] = k
  BY <1>6, <1>7
<1>9. \A i \in D : at(pos[i]) = i
  BY <1>6, <1>8
<1>10. InOrder(f) = [k \in 1..n |-> f[at(k)]]
  <2>1. DOMAIN f = D
    OBVIOUS
  <2>2. QED
    BY <2>1 DEF InOrder, Upto
<1> HIDE DEF at
<1>11. InOrder(f) \in [1..n -> X] /\ \A k \in 1..n : InOrder(f)[k] = f[at(k)]
  BY <1>8, <1>10
<1>12. QED
  BY <1>1, <1>6, <1>8, <1>9, <1>11 DEF Lists

LEMMA FunctionIsSeq ==
    ASSUME NEW n \in Nat, NEW X, NEW f \in [1..n -> X]
    PROVE  f \in Seq(X) /\ Len(f) = n
OBVIOUS

LEMMA RequestIs ==
    ASSUME NEW r, RequestSound(r)
    PROVE  /\ r.uuid \in Uuids /\ r.nics \in Interfaces /\ r.to \in Devs
           /\ r.op \in {"Create", "Delete"} \cup Modifications
           /\ r.items \in Seq(Item) /\ DOMAIN r.items = 1..Len(r.items)
           /\ Len(r.items) \in {0, 1, 2} /\ Len(r.items) <= MaxDisks
           /\ r.items = <<>> <=> Len(r.items) = 0
           /\ \A i \in 1..Len(r.items) : r.items[i].src \in Sources /\ r.items[i].dev \in Devs
           /\ SrcsOf(r.items) \in [1..Len(r.items) -> Sources]
           /\ \A i \in 1..Len(r.items) : SrcsOf(r.items)[i] = r.items[i].src
           /\ ItemSources(r) \in SUBSET Sources /\ IsFiniteSet(ItemSources(r))
           /\ Cardinality(ItemSources(r)) = Len(r.items)
<1> DEFINE s == r.items
           n == Len(s)
<1>1. /\ r.uuid \in Uuids /\ r.nics \in Interfaces /\ r.to \in Devs
      /\ r.op \in {"Create", "Delete"} \cup Modifications
      /\ s \in Seq(Item) /\ n <= 2 /\ n <= MaxDisks
      /\ \A i, j \in DOMAIN s : i # j => s[i].src # s[j].src
  BY DEF RequestSound, Request
<1>2. n \in Nat /\ DOMAIN s = 1..n /\ \A i \in 1..n : s[i] \in Item
  BY <1>1, LenProperties, ElementOfSeq
<1>3. \A i \in 1..n : s[i].src \in Sources /\ s[i].dev \in Devs
  BY <1>2 DEF Item
<1>4. s = <<>> <=> n = 0
  BY <1>1, EmptySeq
<1>5. n \in {0, 1, 2}
  <2>1. n <= 2 /\ n \in Nat
    BY <1>1, <1>2
  <2> HIDE DEF n
  <2>2. QED
    BY <2>1
<1>6. SrcsOf(s) \in [1..n -> Sources] /\ \A i \in 1..n : SrcsOf(s)[i] = s[i].src
  BY <1>2, <1>3 DEF SrcsOf
<1>7. ItemSources(r) = {s[i].src : i \in 1..n}
  BY <1>2 DEF ItemSources
<1> HIDE DEF n
<1>8. IsFiniteSet(ItemSources(r)) /\ Cardinality(ItemSources(r)) = n
  <2>1. CASE n = 0
    BY <1>7, <2>1, FS_EmptySet
  <2>2. CASE n = 1
    <3>1. ItemSources(r) = {s[1].src}
      BY <1>7, <2>2
    <3>2. QED
      BY <2>2, <3>1, FS_Singleton
  <2>3. CASE n = 2
    <3>1. ItemSources(r) = {s[1].src} \cup {s[2].src}
      BY <1>7, <2>3
    <3>2. s[1].src # s[2].src
      BY <1>1, <1>2, <2>3
    <3>3. IsFiniteSet({s[1].src}) /\ Cardinality({s[1].src}) = 1
      BY FS_Singleton
    <3>4. s[2].src \notin {s[1].src}
      BY <3>2
    <3>5. IsFiniteSet({s[1].src} \cup {s[2].src}) /\ Cardinality({s[1].src} \cup {s[2].src}) = 1 + 1
      BY <3>3, <3>4, FS_AddElement
    <3>6. QED
      BY <2>3, <3>1, <3>5
  <2>4. QED
    BY <1>5, <2>1, <2>2, <2>3
<1>9. ItemSources(r) \in SUBSET Sources
  BY <1>3, <1>7
<1>10. QED
  BY <1>1, <1>2, <1>3, <1>4, <1>5, <1>6, <1>8, <1>9 DEF n

LEMMA CreateDevicesIs ==
    ASSUME NEW d \in Document, NEW r, RequestSound(r),
           Disked(d) + Len(r.items) <= MaxDisks, NEW e, e = CreateDevices(d, r)
    PROVE  /\ e \in Document /\ Disked(e) = Disked(d) + Len(r.items)
           /\ DOMAIN e.disks = 1..(Disked(d) + Len(r.items))
           /\ SourcesOf(e) = SourcesOf(d) \cup ItemSources(r)
           /\ e.nics = d.nics \cup r.nics
           /\ DOMAIN d.disks = {} => e.disks = SrcsOf(r.items)
<1> DEFINE n == Disked(d)
           m == Len(r.items)
           S == Sources \cup {Empty}
           f == InOrder(d.disks)
           g == SrcsOf(r.items)
           D == DOMAIN d.disks
<1>1. /\ D \in SUBSET Devs /\ d.disks \in [D -> S] /\ n = Cardinality(D) /\ d.nics \in Interfaces
      /\ SourcesOf(d) = {d.disks[i] : i \in D} \ {Empty}
  BY DocumentIs DEF Disked
<1>2. /\ n \in Nat /\ f \in [1..n -> S]
      /\ \A k \in 1..n : \E i \in D : f[k] = d.disks[i]
      /\ \A i \in D : \E k \in 1..n : f[k] = d.disks[i]
  <2> DEFINE p == d.disks
  <2>1. D \in SUBSET Devs /\ p \in [D -> S] /\ n = Cardinality(D)
    BY <1>1
  <2> HIDE DEF n, S, D, p
  <2>2. Lists(InOrder(p), p, D, n, S)
    BY <2>1, InOrderIs
  <2>3. QED
    BY <2>2 DEF p, Lists
<1>3. /\ m \in Nat /\ g \in [1..m -> Sources] /\ g \in [1..m -> S] /\ r.nics \in Interfaces
      /\ \A i \in 1..m : g[i] = r.items[i].src
      /\ DOMAIN r.items = 1..m
      /\ \A i \in 1..m : g[i] # Empty
  BY RequestIs, DomainConstants
<1>4. /\ e.disks = f \o g /\ e.nics = d.nics \cup r.nics
      /\ e = [disks |-> f \o g, nics |-> d.nics \cup r.nics]
  BY DEF CreateDevices, RefreshTargetDevs
<1>5. n + m <= MaxDisks
  OBVIOUS
<1> HIDE DEF n, m, S, f, g, D
<1> DEFINE h == f \o g
<1>6. /\ h \in [1..(n + m) -> S]
      /\ \A i \in 1..n : h[i] = f[i]
      /\ \A i \in 1..m : h[n + i] = g[i]
  <2>1. f \in Seq(S) /\ Len(f) = n /\ g \in Seq(S) /\ Len(g) = m
    BY <1>2, <1>3, FunctionIsSeq
  <2>2. /\ h \in Seq(S) /\ Len(h) = n + m
        /\ \A i \in 1 .. n + m : h[i] = IF i <= n THEN f[i] ELSE g[i - n]
    BY <2>1, ConcatProperties
  <2> HIDE DEF h
  <2>3. h \in [1..(n + m) -> S]
    BY <2>2, LenProperties
  <2>4. \A i \in 1..m : n + i \in 1..(n + m) /\ ~(n + i <= n) /\ (n + i) - n = i
    BY <1>2, <1>3
  <2>5. ASSUME NEW i \in 1..n PROVE h[i] = f[i]
    BY <1>2, <1>3, <2>2
  <2>6. ASSUME NEW i \in 1..m PROVE h[n + i] = g[i]
    <3>1. h[n + i] = g[(n + i) - n]
      BY <2>2, <2>4
    <3>2. QED
      BY <2>4, <3>1
  <2>7. QED
    BY <2>3, <2>5, <2>6
<1>7. 1..(n + m) \in SUBSET Devs /\ Cardinality(1..(n + m)) = n + m /\ n + m \in Nat
  <2>1. n + m \in Nat /\ 1..(n + m) \in SUBSET Devs
    BY <1>2, <1>3, <1>5, DomainConstants
  <2>2. Cardinality(1..(n + m)) = IF 1 > n + m THEN 0 ELSE (n + m) - 1 + 1
    <3>1. n + m \in Int /\ 1 \in Int
      BY <2>1
    <3> DEFINE k == n + m
    <3> HIDE DEF k
    <3>2. k \in Int => Cardinality(1..k) = IF 1 > k THEN 0 ELSE k - 1 + 1
      BY FS_Interval
    <3>3. QED
      BY <3>1, <3>2 DEF k
  <2>3. QED
    BY <2>1, <2>2
<1>8. d.nics \cup r.nics \in Interfaces
  BY <1>1, <1>3 DEF Interfaces
<1> HIDE DEF h
<1>9. e.disks = h /\ e = [disks |-> h, nics |-> d.nics \cup r.nics]
  BY <1>4 DEF h
<1>10. e \in Document /\ DOMAIN e.disks = 1..(n + m)
  <2> DEFINE ns == d.nics \cup r.nics
             E == 1..(n + m)
  <2>1. ns \in Interfaces /\ E \in SUBSET Devs /\ h \in [E -> Sources \cup {Empty}]
        /\ e = [disks |-> h, nics |-> ns]
    BY <1>6, <1>7, <1>8, <1>9 DEF S
  <2> HIDE DEF ns, E
  <2>2. [disks |-> h, nics |-> ns] \in Document /\ DOMAIN h = E
    BY <2>1, IsDocument
  <2>3. QED
    BY <1>9, <2>1, <2>2 DEF E
<1>11. SourcesOf(e) = {h[i] : i \in 1..(n + m)} \ {Empty}
  BY <1>9, <1>10, DocumentIs
<1>12. \A i \in 1..(n + m) : i \in 1..n \/ \E j \in 1..m : i = n + j
  <2>1. ASSUME NEW i \in 1..(n + m), i \notin 1..n PROVE i - n \in 1..m /\ i = n + (i - n)
    BY <1>2, <1>3, <2>1
  <2>2. QED
    BY <2>1
<1>13. {h[i] : i \in 1..(n + m)} = {d.disks[i] : i \in D} \cup {g[i] : i \in 1..m}
  <2>1. ASSUME NEW i \in 1..(n + m)
        PROVE  h[i] \in {d.disks[x] : x \in D} \cup {g[x] : x \in 1..m}
    <3>1. CASE i \in 1..n
      BY <1>2, <1>6, <3>1
    <3>2. CASE \E j \in 1..m : i = n + j
      BY <1>6, <3>2
    <3>3. QED
      BY <1>12, <3>1, <3>2
  <2>2. ASSUME NEW x \in D PROVE d.disks[x] \in {h[i] : i \in 1..(n + m)}
    <3>1. PICK k \in 1..n : f[k] = d.disks[x]
      BY <1>2
    <3>2. k \in 1..(n + m) /\ h[k] = d.disks[x]
      BY <1>2, <1>3, <1>6, <3>1
    <3>3. QED
      BY <3>2
  <2>3. ASSUME NEW x \in 1..m PROVE g[x] \in {h[i] : i \in 1..(n + m)}
    <3>1. n + x \in 1..(n + m) /\ h[n + x] = g[x]
      BY <1>2, <1>3, <1>6
    <3>2. QED
      BY <3>1
  <2>4. QED
    BY <2>1, <2>2, <2>3
<1>14. {g[i] : i \in 1..m} = ItemSources(r)
  BY <1>3 DEF ItemSources
<1>15. SourcesOf(e) = SourcesOf(d) \cup ItemSources(r)
  <2>1. Empty \notin {g[i] : i \in 1..m}
    BY <1>3
  <2>2. QED
    BY <1>1, <1>11, <1>13, <1>14, <2>1
<1>16. Disked(e) = n + m
  BY <1>7, <1>10 DEF Disked
<1>17. ASSUME D = {} PROVE h = g
  <2>1. n = 0
    BY <1>1, <1>17, FS_EmptySet
  <2>2. \A i \in 1..m : h[i] = g[i]
    BY <1>3, <1>6, <2>1
  <2>3. h \in [1..m -> S]
    BY <1>3, <1>6, <2>1
  <2>4. QED
    BY <1>3, <2>2, <2>3
<1>18. QED
  BY <1>4, <1>9, <1>10, <1>15, <1>16, <1>17 DEF n, m, D, g

\* The disks that a request names, and the sources of the others.
Hit(d, r) == {i \in DOMAIN d.disks : Names(r.items, i)}
LeftSources(d, r) == {d.disks[i] : i \in DOMAIN d.disks \ Hit(d, r)} \ {Empty}

LEMMA DelDevicesIs ==
    ASSUME NEW d \in Document, NEW r, RequestSound(r), NEW e, e = DelDevices(d, r)
    PROVE  /\ e \in Document /\ Disked(e) <= Disked(d)
           /\ SourcesOf(e) = LeftSources(d, r)
           /\ r.items = <<>> => e.nics \cap r.nics = {}
<1>1. PICK D, f, ns : /\ D = DOMAIN d.disks /\ f = d.disks /\ ns = d.nics
  OBVIOUS
<1>2. /\ D \in SUBSET Devs /\ f \in [D -> Sources \cup {Empty}] /\ ns \in Interfaces
      /\ d = [disks |-> f, nics |-> ns] /\ IsFiniteSet(D) /\ Disked(d) = Cardinality(D)
      /\ Disked(d) \in Nat /\ SourcesOf(d) = {f[i] : i \in D} \ {Empty}
  BY <1>1, DocumentIs DEF Disked, Document
<1>3. CASE r.items # <<>>
  <2> DEFINE E == D \ Hit(d, r)
             g == [i \in E |-> f[i]]
             n == Cardinality(E)
             h == InOrder(g)
             S == Sources \cup {Empty}
  <2>1. E \in SUBSET D /\ E \in SUBSET Devs /\ g \in [E -> S] /\ \A i \in E : g[i] = f[i]
    BY <1>2
  <2>2. E = {i \in DOMAIN d.disks : ~Names(r.items, i)}
    BY <1>1 DEF Hit
  <2>3. e.disks = h /\ e = [disks |-> h, nics |-> ns]
    BY <1>1, <1>2, <1>3, <2>2 DEF DelDevices, RefreshTargetDevs
  <2>4. n <= Cardinality(D)
    BY <1>2, <2>1, FS_Subset
  <2> HIDE DEF E, g, S, n
  <2>5. Lists(h, g, E, n, S)
    BY <2>1, InOrderIs DEF n
  <2> HIDE DEF h
  <2>6. 1..n \in SUBSET Devs /\ Cardinality(1..n) = n /\ n \in Nat
    <3>1. n \in Nat /\ n <= MaxDisks
      BY <2>5 DEF Lists
    <3>2. Cardinality(1..n) = n
      BY <3>1, FS_Interval
    <3>3. QED
      BY <3>1, <3>2, DomainConstants
  <2>7. e \in Document /\ DOMAIN e.disks = 1..n
    BY <1>2, <2>3, <2>5, <2>6, IsDocument DEF Lists, S
  <2>8. SourcesOf(e) = {h[k] : k \in 1..n} \ {Empty}
    BY <2>3, <2>7, DocumentIs
  <2>9. {h[k] : k \in 1..n} = {f[i] : i \in E}
    BY <2>1, <2>5, SMTT(30) DEF Lists
  <2>10. LeftSources(d, r) = {f[i] : i \in E} \ {Empty}
    BY <1>1 DEF LeftSources, E
  <2>11. Disked(e) <= Disked(d)
    BY <1>2, <2>4, <2>6, <2>7 DEF Disked
  <2>12. QED
    BY <1>3, <2>7, <2>8, <2>9, <2>10, <2>11
<1>4. CASE r.items = <<>>
  <2>1. e = [disks |-> f, nics |-> ns \ r.nics]
    BY <1>2, <1>4 DEF DelDevices
  <2>2. ns \ r.nics \in Interfaces
    BY <1>2 DEF Interfaces
  <2>3. e \in Document /\ e.disks = f /\ e.nics = ns \ r.nics
    BY <1>2, <2>1, <2>2, IsDocument
  <2>4. Hit(d, r) = {}
    BY <1>4 DEF Hit, Names
  <2>5. SourcesOf(e) = {f[i] : i \in D} \ {Empty}
    BY <1>2, <2>3, DocumentIs
  <2>6. SourcesOf(e) = LeftSources(d, r)
    BY <1>1, <2>4, <2>5 DEF LeftSources
  <2>7. Disked(e) = Disked(d)
    BY <1>1, <2>3 DEF Disked
  <2>8. QED
    BY <1>2, <2>3, <2>6, <2>7
<1>5. QED
  BY <1>3, <1>4

\* Documents with the disks of another under the same names.
LEMMA SameNames ==
    ASSUME NEW d \in Document, NEW f, NEW e, e = [d EXCEPT !.disks = f],
           f \in [DOMAIN d.disks -> Sources \cup {Empty}]
    PROVE  /\ e \in Document /\ e.disks = f /\ e.nics = d.nics /\ Disked(e) = Disked(d)
           /\ SourcesOf(e) = {f[i] : i \in DOMAIN d.disks} \ {Empty}
<1>1. DOMAIN d.disks \in SUBSET Devs /\ d.nics \in Interfaces
  BY DocumentIs
<1>2. e = [disks |-> f, nics |-> d.nics]
  BY DEF Document
<1>3. e \in Document /\ e.disks = f /\ e.nics = d.nics /\ DOMAIN f = DOMAIN d.disks
  <2> DEFINE D == DOMAIN d.disks
             ns == d.nics
  <2>1. D \in SUBSET Devs /\ ns \in Interfaces /\ f \in [D -> Sources \cup {Empty}]
    BY <1>1
  <2> HIDE DEF D, ns
  <2>2. [disks |-> f, nics |-> ns] \in Document /\ DOMAIN f = D
    BY <2>1, IsDocument
  <2>3. QED
    BY <1>2, <2>2 DEF D, ns
<1>4. QED
  BY <1>3, DocumentIs, ZenonT(60) DEF Disked

LEMMA SetSourceIs ==
    ASSUME NEW d \in Document, NEW r, RequestSound(r), NEW e, e = SetSource(d, r.items)
    PROVE  /\ e \in Document /\ e.nics = d.nics /\ Disked(e) = Disked(d)
           /\ SourcesOf(e) = {IF Names(r.items, i) THEN Named(r.items, i) ELSE d.disks[i] :
                                  i \in DOMAIN d.disks} \ {Empty}
           /\ Len(r.items) = 1 =>
                 SourcesOf(e) = LeftSources(d, r)
                                \cup (IF Hit(d, r) = {} THEN {} ELSE ItemSources(r))
<1> DEFINE s == r.items
           D == DOMAIN d.disks
           f == [i \in D |-> IF Names(s, i) THEN Named(s, i) ELSE d.disks[i]]
<1>1. \A i : Names(s, i) => \E j \in 1..Len(s) : s[j].dev = i /\ Named(s, i) = s[j].src
  BY RequestIs DEF Names, Named
<1>2. \A i : Names(s, i) => Named(s, i) \in Sources
  BY <1>1, RequestIs
<1>3. f \in [D -> Sources \cup {Empty}]
  BY <1>2, DocumentIs
<1>4. e = [d EXCEPT !.disks = f]
  BY DEF SetSource
<1> HIDE DEF f
<1>5. /\ e \in Document /\ e.nics = d.nics /\ Disked(e) = Disked(d)
      /\ SourcesOf(e) = {f[i] : i \in D} \ {Empty}
  BY <1>3, <1>4, SameNames
<1>6. SourcesOf(e) = {IF Names(s, i) THEN Named(s, i) ELSE d.disks[i] : i \in D} \ {Empty}
  BY <1>5 DEF f
<1>7. ASSUME Len(s) = 1
      PROVE  SourcesOf(e) = LeftSources(d, r)
                            \cup (IF Hit(d, r) = {} THEN {} ELSE ItemSources(r))
  <2>1. /\ ItemSources(r) = {s[1].src} /\ s[1].src # Empty
        /\ \A i : Names(s, i) => Named(s, i) = s[1].src
    <3>1. DOMAIN s = {1} /\ 1..Len(s) = {1} /\ s[1].src # Empty
      BY <1>7, RequestIs, DomainConstants
    <3>2. ItemSources(r) = {s[1].src}
      BY <3>1 DEF ItemSources
    <3>3. QED
      BY <1>1, <3>1, <3>2
  <2>2. SourcesOf(e) = {IF Names(s, i) THEN s[1].src ELSE d.disks[i] : i \in D} \ {Empty}
    BY <1>6, <2>1
  <2>3. QED
    BY <2>1, <2>2 DEF LeftSources, Hit
<1>8. QED
  BY <1>5, <1>6, <1>7

LEMMA EjectCdromIs ==
    ASSUME NEW d \in Document, NEW r, RequestSound(r), NEW e, e = EjectCdrom(d, r)
    PROVE  /\ e \in Document /\ Disked(e) = Disked(d) /\ SourcesOf(e) = LeftSources(d, r)
<1> DEFINE D == DOMAIN d.disks
           f == [i \in D |-> IF Names(r.items, i) THEN Empty ELSE d.disks[i]]
<1>1. f \in [D -> Sources \cup {Empty}] /\ e = [d EXCEPT !.disks = f]
  BY DocumentIs DEF EjectCdrom
<1>2. \A i \in D : f[i] = IF i \in Hit(d, r) THEN Empty ELSE d.disks[i]
  BY DEF Hit
<1> HIDE DEF f
<1>3. /\ e \in Document /\ Disked(e) = Disked(d) /\ SourcesOf(e) = {f[i] : i \in D} \ {Empty}
  BY <1>1, SameNames
<1>4. SourcesOf(e) = LeftSources(d, r)
  BY <1>2, <1>3 DEF LeftSources
<1>5. QED
  BY <1>3, <1>4

LEMMA RetargetIs ==
    ASSUME NEW d \in Document, NEW r, RequestSound(r), Len(r.items) = 1, NEW e,
           e = Retarget(d, r)
    PROVE  /\ e \in Document /\ Disked(e) <= Disked(d)
           /\ r.op = "UPDATE" /\ ~Clash(d, r) =>
                 /\ SourcesOf(e) = SourcesOf(d)
                 /\ Hit(d, r) # {} => e.disks[r.to] \in {d.disks[i] : i \in Hit(d, r)}
<1>1. PICK D, f, ns, v, to : /\ D = DOMAIN d.disks /\ f = d.disks /\ ns = d.nics
                             /\ v = r.items[1].dev /\ to = r.to
  OBVIOUS
<1>2. /\ D \in SUBSET Devs /\ f \in [D -> Sources \cup {Empty}] /\ ns \in Interfaces
      /\ d = [disks |-> f, nics |-> ns] /\ IsFiniteSet(D) /\ Disked(d) = Cardinality(D)
      /\ Disked(d) \in Nat /\ SourcesOf(d) = {f[i] : i \in D} \ {Empty}
  BY <1>1, DocumentIs DEF Disked, Document
<1>3. \A i : Names(r.items, i) <=> i = v
  <2>1. DOMAIN r.items = {1}
    BY RequestIs
  <2>2. QED
    BY <1>1, <2>1 DEF Names
<1>4. Hit(d, r) = {i \in D : i = v} /\ to \in Devs
  BY <1>1, <1>3, RequestIs DEF Hit
<1>5. e = [d EXCEPT !.disks = [i \in (IF Hit(d, r) = {} THEN D ELSE (D \ Hit(d, r)) \cup {to}) |->
                                  IF i = to /\ Hit(d, r) # {}
                                  THEN f[CHOOSE j \in Hit(d, r) : TRUE] ELSE f[i]]]
  BY <1>1 DEF Retarget, Hit
<1>6. CASE v \notin D
  <2>1. Hit(d, r) = {}
    BY <1>4, <1>6
  <2>2. [i \in D |-> f[i]] = f
    BY <1>2
  <2>3. e = [d EXCEPT !.disks = f]
    BY <1>5, <2>1, <2>2
  <2>4. /\ e \in Document /\ Disked(e) = Disked(d)
        /\ SourcesOf(e) = {f[i] : i \in D} \ {Empty}
    BY <1>1, <1>2, <2>3, SameNames
  <2>5. QED
    BY <1>2, <2>1, <2>4
<1>7. CASE v \in D
  <2> DEFINE E == (D \ {v}) \cup {to}
             g == [i \in E |-> IF i = to THEN f[v] ELSE f[i]]
  <2>1. Hit(d, r) = {v}
    BY <1>4, <1>7
  <2>2. (CHOOSE j \in {v} : TRUE) = v
    OBVIOUS
  <2>3. e = [disks |-> g, nics |-> ns]
    BY <1>2, <1>5, <2>1, <2>2
  <2>4. /\ E \in SUBSET Devs /\ g \in [E -> Sources \cup {Empty}] /\ to \in E
        /\ g[to] = f[v] /\ \A i \in E : i # to => i \in D /\ i # v /\ g[i] = f[i]
        /\ \A i \in D : i # v => i \in E
    BY <1>2, <1>4, <1>7
  <2>5. IsFiniteSet(E) /\ Cardinality(E) <= Cardinality(D)
    <3>1. IsFiniteSet(D \ {v}) /\ Cardinality(D \ {v}) = Cardinality(D) - 1
      BY <1>2, <1>7, FS_RemoveElement
    <3>2. /\ IsFiniteSet(E)
          /\ Cardinality(E) = IF to \in D \ {v} THEN Cardinality(D \ {v})
                              ELSE Cardinality(D \ {v}) + 1
      BY <3>1, FS_AddElement
    <3> HIDE DEF E
    <3>3. QED
      BY <1>2, <3>1, <3>2
  <2> HIDE DEF E, g
  <2>6. /\ e \in Document /\ DOMAIN e.disks = E /\ e.disks = g
    BY <1>2, <2>3, <2>4, IsDocument
  <2>7. Disked(e) <= Disked(d)
    BY <1>2, <2>5, <2>6 DEF Disked
  <2>8. ASSUME r.op = "UPDATE", ~Clash(d, r)
        PROVE  SourcesOf(e) = SourcesOf(d) /\ e.disks[r.to] \in {d.disks[i] : i \in Hit(d, r)}
    <3>1. to \in D => to = v
      BY <1>1, <1>3, <1>7, <2>8 DEF Clash
    <3>2. {g[i] : i \in E} = {f[i] : i \in D}
      BY <1>7, <2>4, <3>1
    <3>3. SourcesOf(e) = {g[i] : i \in E} \ {Empty}
      BY <2>6, DocumentIs
    <3>4. e.disks[r.to] = d.disks[v] /\ v \in Hit(d, r)
      BY <1>1, <2>1, <2>4, <2>6
    <3>5. SourcesOf(e) = SourcesOf(d)
      BY <1>2, <3>2, <3>3
    <3>6. QED
      BY <3>4, <3>5
  <2>9. QED
    BY <2>6, <2>7, <2>8
<1>8. QED
  BY <1>6, <1>7

\* What ModifyDomain takes from a document: the sources of the disks it names.
TakenFrom(d, r) == IF r.op \in {"ADD", "UPDATE"} THEN {} ELSE {d.disks[i] : i \in Hit(d, r)}

\* A document that is modified is what was asked, and has the sources that were
\* not taken.
LEMMA ModifiedIs ==
    ASSUME NEW d \in Document, NEW r, RequestSound(r), r.op \in Modifications,
           r.op = "ADD" => Disked(d) + Len(r.items) <= MaxDisks,
           NEW e, e = Modified(d, r)
    PROVE  /\ e \in Document
           /\ Disked(e) <= Disked(d) + (IF r.op = "ADD" THEN Len(r.items) ELSE 0)
           /\ ~Clash(d, r) => SourcesOf(d) \ TakenFrom(d, r) \subseteq SourcesOf(e)
           /\ ~Clash(d, r) => \A q : q.req = r /\ q.before.seen = d => Asked(q, e)
<1> DEFINE n == Disked(d)
           m == Len(r.items)
<1>1. /\ n \in Nat /\ m \in Nat
      /\ SourcesOf(d) = {d.disks[i] : i \in DOMAIN d.disks} \ {Empty}
  BY DocumentIs, RequestIs
<1>2. SourcesOf(d) \ {d.disks[i] : i \in Hit(d, r)} \subseteq LeftSources(d, r)
  BY <1>1 DEF LeftSources, Hit
<1>3. ASSUME NEW q, q.req = r, q.before.seen = d,
             CASE r.op = "ADD" -> SourcesOf(e) = SourcesOf(d) \cup ItemSources(r)
                                  /\ r.nics \subseteq e.nics
               [] r.op = "DELETE" -> /\ SourcesOf(e) = LeftSources(d, r)
                                     /\ ItemSources(r) = {} => e.nics \cap r.nics = {}
               [] r.op = "MOUNT" -> SourcesOf(e) = LeftSources(d, r)
                                       \cup (IF Hit(d, r) = {} THEN {} ELSE ItemSources(r))
               [] r.op = "UMOUNT" -> SourcesOf(e) = LeftSources(d, r)
               [] r.op = "UPDATE" -> /\ SourcesOf(e) = SourcesOf(d)
                                     /\ Hit(d, r) # {} =>
                                          e.disks[r.to] \in {d.disks[i] : i \in Hit(d, r)}
      PROVE  Asked(q, e)
  <2>1. r.op \in {"ADD", "DELETE", "MOUNT", "UMOUNT", "UPDATE"}
    BY DEF Modifications
  <2>2. CASE r.op = "ADD"
    BY <1>3, <2>2 DEF Asked, ItemSources
  <2>3. CASE r.op = "DELETE"
    <3>1. /\ SourcesOf(e) = LeftSources(d, r)
          /\ ItemSources(r) = {} => e.nics \cap r.nics = {}
      BY <1>3, <2>3
    <3>2. /\ SourcesOf(e) = {d.disks[i] : i \in DOMAIN d.disks
                                   \ {i \in DOMAIN d.disks : Names(r.items, i)}} \ {Empty}
          /\ {r.items[i].src : i \in DOMAIN r.items} = {} => e.nics \cap r.nics = {}
      BY <3>1 DEF Hit, LeftSources, ItemSources
    <3>3. QED
      BY <1>3, <2>3, <3>2 DEF Asked
  <2>4. CASE r.op = "MOUNT"
    BY <1>3, <2>4 DEF Asked, Hit, LeftSources, ItemSources
  <2>5. CASE r.op = "UMOUNT"
    BY <1>3, <2>5 DEF Asked, Hit, LeftSources
  <2>6. CASE r.op = "UPDATE"
    BY <1>3, <2>6 DEF Asked, Hit
  <2>7. QED
    BY <2>1, <2>2, <2>3, <2>4, <2>5, <2>6
<1>4. CASE r.op = "ADD"
  <2>1. e = CreateDevices(d, r)
    BY <1>4 DEF Modified
  <2>2. /\ e \in Document /\ Disked(e) = n + m
        /\ SourcesOf(e) = SourcesOf(d) \cup ItemSources(r) /\ e.nics = d.nics \cup r.nics
    BY <1>4, <2>1, CreateDevicesIs
  <2>3. \A q : q.req = r /\ q.before.seen = d => Asked(q, e)
    BY <1>3, <1>4, <2>2
  <2>4. QED
    BY <1>1, <1>4, <2>2, <2>3
<1>5. CASE r.op = "DELETE"
  <2>1. e = DelDevices(d, r)
    BY <1>5 DEF Modified
  <2>2. /\ e \in Document /\ Disked(e) <= n /\ SourcesOf(e) = LeftSources(d, r)
        /\ r.items = <<>> => e.nics \cap r.nics = {}
    BY <2>1, DelDevicesIs
  <2>3. ItemSources(r) = {} => r.items = <<>>
    BY RequestIs, FS_EmptySet
  <2>4. \A q : q.req = r /\ q.before.seen = d => Asked(q, e)
    BY <1>3, <1>5, <2>2, <2>3
  <2>5. QED
    BY <1>1, <1>2, <1>5, <2>2, <2>4 DEF TakenFrom
<1>6. CASE r.op = "MOUNT"
  <2>1. e = SetSource(d, r.items) /\ m = 1
    BY <1>6 DEF Modified, RequestSound
  <2>2. /\ e \in Document /\ Disked(e) = n
        /\ SourcesOf(e) = LeftSources(d, r)
                          \cup (IF Hit(d, r) = {} THEN {} ELSE ItemSources(r))
    BY <2>1, SetSourceIs
  <2>3. \A q : q.req = r /\ q.before.seen = d => Asked(q, e)
    BY <1>3, <1>6, <2>2
  <2>4. QED
    BY <1>1, <1>2, <1>6, <2>2, <2>3 DEF TakenFrom
<1>7. CASE r.op = "UMOUNT"
  <2>1. e = EjectCdrom(d, r)
    BY <1>7 DEF Modified
  <2>2. e \in Document /\ Disked(e) = n /\ SourcesOf(e) = LeftSources(d, r)
    BY <2>1, EjectCdromIs
  <2>3. \A q : q.req = r /\ q.before.seen = d => Asked(q, e)
    BY <1>3, <1>7, <2>2
  <2>4. QED
    BY <1>1, <1>2, <1>7, <2>2, <2>3 DEF TakenFrom
<1>8. CASE r.op = "UPDATE"
  <2>1. e = Retarget(d, r) /\ m = 1
    BY <1>8 DEF Modified, RequestSound
  <2>2. /\ e \in Document /\ Disked(e) <= n
        /\ ~Clash(d, r) => SourcesOf(e) = SourcesOf(d)
        /\ ~Clash(d, r) => (Hit(d, r) # {} =>
              e.disks[r.to] \in {d.disks[i] : i \in Hit(d, r)})
    BY <1>8, <2>1, RetargetIs
  <2>3. ~Clash(d, r) => \A q : q.req = r /\ q.before.seen = d => Asked(q, e)
    BY <1>3, <1>8, <2>2
  <2>4. QED
    BY <1>1, <1>8, <2>2, <2>3
<1>9. QED
  BY <1>4, <1>5, <1>6, <1>7, <1>8 DEF Modifications

\* A domain that is created has the sources that were asked for, one for each
\* item, but for those displaced.
LEMMA CreatedIs ==
    ASSUME NEW r, RequestSound(r), NEW e, e = Created(r)
    PROVE  /\ e \in Document /\ Disked(e) = Len(r.items)
           /\ \A i \in DOMAIN r.items :
                 r.items[i].src \in SourcesOf(e) \/ Displaced(r.items, i)
<1> DEFINE s == r.items
           n == Len(s)
           d == CreateDevices(Nothing, r)
<1>1. /\ n \in Nat /\ n <= MaxDisks /\ DOMAIN s = 1..n
      /\ \A i \in 1..n : SrcsOf(s)[i] = s[i].src /\ s[i].src \in Sources
      /\ \A i, j \in 1..n : i # j => s[i].dev # s[j].dev
  BY RequestIs DEF RequestSound
<1>2. /\ d \in Document /\ Disked(d) = n /\ DOMAIN d.disks = 1..n /\ d.disks = SrcsOf(s)
  BY <1>1, NothingIs, CreateDevicesIs
<1>3. e = SetSource(d, s)
  BY DEF Created
<1> HIDE DEF d
<1>4. /\ e \in Document /\ Disked(e) = Disked(d)
      /\ SourcesOf(e) = {IF Names(s, i) THEN Named(s, i) ELSE d.disks[i] :
                            i \in DOMAIN d.disks} \ {Empty}
  BY <1>2, <1>3, SetSourceIs
<1>5. ASSUME NEW i \in 1..n, ~Displaced(s, i) PROVE s[i].src \in SourcesOf(e)
  <2>1. s[i].src # Empty
    BY <1>1, DomainConstants
  <2>2. CASE s[i].dev \in 1..n
    <3>1. Names(s, s[i].dev) /\ Named(s, s[i].dev) = s[i].src
      BY <1>1 DEF Names, Named
    <3>2. QED
      BY <1>2, <1>4, <2>1, <2>2, <3>1
  <2>3. CASE s[i].dev \notin 1..n
    <3>1. ~Names(s, i)
      BY <1>1, <1>5, <2>3 DEF Displaced
    <3>2. QED
      BY <1>1, <1>2, <1>4, <2>1, <3>1
  <2>4. QED
    BY <2>2, <2>3
<1>6. QED
  BY <1>1, <1>2, <1>4, <1>5

-----------------------------------------------------------------------------
(* The states                                                              *)

LEMMA IdleCallIs ==
    /\ DomIdle \in DomCalls /\ DomCallSound(DomIdle)
    /\ DomIdle.pc = "idle" /\ DomIdle.ok = "none" /\ DomIdle.doc = Nothing /\ DomIdle.read = Nothing
    /\ DomIdle.conn = TRUE /\ DomIdle.failed = FALSE
    /\ DomIdle.before = [listed |-> FALSE, defined |-> Undefined, seen |-> Nothing]
    /\ DomIdle.before \in [listed : BOOLEAN, defined : MaybeDocument, seen : MaybeDocument]
    /\ NoRequest \in Request /\ DomIdle.req = NoRequest /\ NoRequest.items = <<>>
    /\ NoRequest.op = "Delete" /\ NoRequest.nics = {} /\ NoRequest.to = 1
<1>1. /\ NoRequest.op = "Delete" /\ NoRequest.items = <<>> /\ NoRequest.nics = {}
      /\ NoRequest.to = 1
  BY DEF NoRequest
<1>2. NoRequest \in Request
  <2>1. (CHOOSE u \in Uuids : TRUE) \in Uuids
    BY DomainConstants
  <2>2. <<>> \in Seq(Item) /\ {} \in Interfaces /\ 1 \in Devs
    BY DomainConstants, EmptySeq DEF Interfaces
  <2>3. QED
    BY <2>1, <2>2 DEF NoRequest, Request
<1>3. RequestSound(NoRequest)
  <2>1. DOMAIN <<>> = {} /\ Len(<<>>) = 0
    OBVIOUS
  <2>2. QED
    BY <1>1, <1>2, <2>1, DomainConstants DEF RequestSound
<1>4. /\ DomIdle.pc = "idle" /\ DomIdle.req = NoRequest /\ DomIdle.conn = TRUE /\ DomIdle.failed = FALSE
      /\ DomIdle.read = Nothing /\ DomIdle.doc = Nothing /\ DomIdle.ok = "none"
      /\ DomIdle.before = [listed |-> FALSE, defined |-> Undefined, seen |-> Nothing]
  BY DEF DomIdle
<1>5. DomIdle.before \in [listed : BOOLEAN, defined : MaybeDocument, seen : MaybeDocument]
  BY <1>4, NothingIs DEF MaybeDocument
<1>6. DomIdle \in DomCalls
  <2>1. DomIdle = [pc |-> DomIdle.pc, req |-> DomIdle.req, conn |-> DomIdle.conn, failed |-> DomIdle.failed,
                read |-> DomIdle.read, doc |-> DomIdle.doc, ok |-> DomIdle.ok, before |-> DomIdle.before]
    BY DEF DomIdle
  <2>2. /\ DomIdle.pc \in Pc /\ DomIdle.req \in Request /\ DomIdle.conn \in BOOLEAN
        /\ DomIdle.failed \in BOOLEAN /\ DomIdle.read \in Document /\ DomIdle.doc \in Document
        /\ DomIdle.ok \in Answers
    BY <1>2, <1>4, NothingIs DEF Pc, Answers
  <2> HIDE DEF DomIdle
  <2>3. QED
    BY <1>5, <2>1, <2>2 DEF DomCalls
<1>7. DomCallSound(DomIdle)
  BY <1>3, <1>4 DEF DomCallSound
<1>8. QED
  BY <1>1, <1>2, <1>4, <1>5, <1>6, <1>7

\* What is known of a call under way.
LEMMA CallIs ==
    ASSUME DomInv, NEW c \in Callers, NEW r, r = call[c], NEW u, u = r.req.uuid
    PROVE  /\ r \in DomCalls /\ DomCallSound(r) /\ RequestSound(r.req) /\ u \in Uuids
           /\ r.doc \in Document /\ r.read \in Document /\ r.conn \in BOOLEAN
           /\ call \in [Callers -> DomCalls]
           /\ list \in SUBSET Uuids
           /\ defined \in [Uuids -> MaybeDocument] /\ live \in [Uuids -> MaybeDocument]
           /\ kept \in [Uuids -> SUBSET Sources]
           /\ dirty \in SUBSET Uuids /\ stale \in SUBSET Uuids
           /\ r.pc # "idle" => c \in Under(u)
           /\ r.pc # "idle" /\ u \notin dirty => Way(r, list, defined)
           /\ u \notin dirty \cup stale => kept[u] \subseteq SourcesOf(defined[u])
           /\ u \notin dirty \cup stale /\ r.pc = "redefine" => r.read = defined[u]
           /\ c \in alone => Story(r, list, defined, live)
<1>1. DomTyped /\ ListInv /\ KeptInv /\ AloneInv
  BY DEF DomInv
<1>2. r \in DomCalls /\ DomCallSound(r)
  BY <1>1 DEF DomTyped
<1>3. /\ RequestSound(r.req) /\ u \in Uuids
      /\ r.doc \in Document /\ r.read \in Document /\ r.conn \in BOOLEAN
  BY <1>2, RequestIs DEF DomCalls, DomCallSound
<1>4. r.pc # "idle" => c \in Under(u)
  BY DEF Under, DomAt, Uuid
<1>5. r.pc # "idle" /\ u \notin dirty => Way(r, list, defined)
  BY <1>1, <1>3, <1>4 DEF ListInv
<1>6. u \notin dirty \cup stale => kept[u] \subseteq SourcesOf(defined[u])
  BY <1>1, <1>3 DEF KeptInv
<1>7. u \notin dirty \cup stale /\ r.pc = "redefine" => r.read = defined[u]
  BY <1>1, <1>3, <1>4 DEF KeptInv, DomAt
<1>8. c \in alone => Story(r, list, defined, live)
  BY <1>1 DEF AloneInv
<1>9. QED
  BY <1>1, <1>2, <1>3, <1>4, <1>5, <1>6, <1>7, <1>8 DEF DomTyped

\* Who works on a domain when a call has moved.
Moves(c, u, q) ==
    /\ call'[c] = q /\ \A d \in Callers : d # c => call'[d] = call[d]
    /\ \A v : v # u => Under(v)' = Under(v) /\ c \notin Under(v)
    /\ \A v : Under(v)' \in SUBSET Under(v)
    /\ c \in Under(u)'  <=> q.pc # "idle"
    /\ \A v : \A d \in Under(v) : d # c => d \in Under(v)'

LEMMA UnderStep ==
    ASSUME call \in [Callers -> DomCalls], NEW c \in Callers, ~DomAt(c, "idle"),
           NEW u, u = call[c].req.uuid, NEW q,
           call' = [call EXCEPT ![c] = q], q.pc # "idle" => q.req.uuid = u
    PROVE  Moves(c, u, q)
<1>1. call'[c] = q /\ \A d \in Callers : d # c => call'[d] = call[d]
  OBVIOUS
<1>2. \A v, d : d \in Under(v) <=> d \in Callers /\ call[d].pc # "idle" /\ call[d].req.uuid = v
  BY DEF Under, DomAt, Uuid
<1>3. \A v, d : d \in Under(v)' <=> d \in Callers /\ call'[d].pc # "idle" /\ call'[d].req.uuid = v
  BY DEF Under, DomAt, Uuid
<1>4. call[c].pc # "idle"
  BY DEF DomAt
<1>5. ASSUME NEW v PROVE Under(v)' \in SUBSET Under(v)
  <2>1. ASSUME NEW d \in Under(v)' PROVE d \in Under(v)
    <3>1. d \in Callers /\ call'[d].pc # "idle" /\ call'[d].req.uuid = v
      BY <1>3, <2>1
    <3>2. QED
      BY <1>1, <1>2, <1>4, <3>1
  <2>2. QED
    BY <2>1
<1>6. ASSUME NEW v, NEW d \in Under(v), d # c PROVE d \in Under(v)'
  BY <1>1, <1>2, <1>3, <1>6
<1>7. ASSUME NEW v, v # u PROVE Under(v)' = Under(v) /\ c \notin Under(v)
  <2>1. c \notin Under(v)
    BY <1>2, <1>7
  <2>2. QED
    BY <1>5, <1>6, <2>1
<1>8. c \in Under(u)' <=> q.pc # "idle"
  BY <1>1, <1>3
<1>9. QED
  BY <1>1, <1>5, <1>6, <1>7, <1>8 DEF Moves

\* Nothing changes for other domains.
OnlyOf(u) == \A v \in Uuids : v # u => /\ v \in list' <=> v \in list
                                       /\ defined'[v] = defined[v] /\ kept'[v] = kept[v]

\* A call moves, and what it does is for its own domain.
LEMMA DomStep ==
    ASSUME DomInv, NEW c \in Callers, ~DomAt(c, "idle"), NEW u, u = call[c].req.uuid,
           NEW q \in DomCalls, DomCallSound(q), call' = [call EXCEPT ![c] = q],
           q.pc # "idle" => q.req.uuid = u,
           calls' = calls, alone' = alone, live' = live, list' \in SUBSET Uuids,
           defined' \in [Uuids -> MaybeDocument], kept' \in [Uuids -> SUBSET Sources],
           dirty' \in SUBSET Uuids, stale' \in SUBSET Uuids,
           dirty \subseteq dirty', stale \subseteq stale',
           OnlyOf(u),
           SizeInv',
           u \notin dirty' => IF q.pc = "idle" THEN u \in list' <=> defined'[u] # Undefined
                              ELSE Way(q, list', defined'),
           u \notin dirty' \cup stale' => /\ kept'[u] \subseteq SourcesOf(defined'[u])
                                          /\ q.pc = "redefine" => q.read = defined'[u],
           c \in alone => Story(q, list', defined', live')
    PROVE  DomInv'
<1>1. DomTyped /\ ListInv /\ KeptInv /\ AloneInv /\ u \in Uuids
  BY CallIs DEF DomInv
<1>2. call \in [Callers -> DomCalls]
  BY <1>1 DEF DomTyped
<1>3. /\ call'[c] = q /\ \A d \in Callers : d # c => call'[d] = call[d]
      /\ \A v : v # u => Under(v)' = Under(v) /\ c \notin Under(v)
      /\ \A v : Under(v)' \in SUBSET Under(v)
      /\ c \in Under(u)'  <=> q.pc # "idle"
      /\ \A v : \A d \in Under(v) : d # c => d \in Under(v)'
  <2>1. Moves(c, u, q)
    BY <1>2, UnderStep
  <2>2. QED
    BY <2>1 DEF Moves
<1>4. \A v, d : d \in Under(v) <=> d \in Callers /\ call[d].pc # "idle" /\ call[d].req.uuid = v
  BY DEF Under, DomAt, Uuid
<1>5. c \in Under(u)
  BY <1>4 DEF DomAt
<1>6. DomTyped'
  <2>1. call' \in [Callers -> DomCalls]
    BY <1>2
  <2>2. \A d \in Callers : DomCallSound(call'[d])
    BY <1>1, <1>3 DEF DomTyped
  <2>3. calls' \in 0..MaxCalls /\ alone' \in SUBSET Callers /\ live' \in [Uuids -> MaybeDocument]
    BY <1>1 DEF DomTyped
  <2>4. QED
    BY <2>1, <2>2, <2>3 DEF DomTyped
<1>7. ListInv'
  <2> SUFFICES ASSUME NEW v \in Uuids, v \notin dirty'
               PROVE  /\ \A d, e \in Under(v)' : d = e
                      /\ Under(v)' = {} => (v \in list' <=> defined'[v] # Undefined)
                      /\ \A d \in Under(v)' : Way(call'[d], list', defined')
    BY DEF ListInv
  <2>1. /\ \A d, e \in Under(v) : d = e
        /\ Under(v) = {} => (v \in list <=> defined[v] # Undefined)
        /\ \A d \in Under(v) : Way(call[d], list, defined)
    BY <1>1 DEF ListInv
  <2>2. CASE v # u
    <3>1. /\ Under(v)' = Under(v) /\ c \notin Under(v)
          /\ v \in list' <=> v \in list
          /\ defined'[v] = defined[v]
      BY <1>3, <2>2 DEF OnlyOf
    <3>2. ASSUME NEW d \in Under(v) PROVE Way(call'[d], list', defined')
      <4>1. call'[d] = call[d] /\ call[d].req.uuid = v
        BY <1>3, <1>4, <3>1
      <4>2. Way(call[d], list, defined)
        BY <2>1
      <4>3. QED
        BY <3>1, <4>1, <4>2 DEF Way
    <3>3. QED
      BY <2>1, <3>1, <3>2
  <2>3. CASE v = u
    <3>1. \A d \in Under(u)' : d = c
      BY <1>3, <1>5, <2>1, <2>3
    <3>2. QED
      BY <1>3, <2>3, <3>1
  <2>4. QED
    BY <2>2, <2>3
<1>8. KeptInv'
  <2> SUFFICES ASSUME NEW v \in Uuids, v \notin dirty' \cup stale'
               PROVE  /\ kept'[v] \subseteq SourcesOf(defined'[v])
                      /\ \A d \in Under(v)' : call'[d].pc = "redefine" =>
                             call'[d].read = defined'[v]
    BY DEF KeptInv, DomAt
  <2>1. /\ kept[v] \subseteq SourcesOf(defined[v])
        /\ \A d \in Under(v) : call[d].pc = "redefine" => call[d].read = defined[v]
        /\ \A d, e \in Under(v) : d = e
    BY <1>1 DEF KeptInv, ListInv, DomAt
  <2>2. CASE v # u
    BY <1>3, <1>4, <2>1, <2>2 DEF OnlyOf
  <2>3. CASE v = u
    <3>1. \A d \in Under(u)' : d = c
      BY <1>3, <1>5, <2>1, <2>3
    <3>2. QED
      BY <1>3, <2>3, <3>1
  <2>4. QED
    BY <2>2, <2>3
<1>9. AloneInv'
  <2> SUFFICES ASSUME NEW d \in alone
               PROVE  /\ \A e \in Callers : e # d => call'[e].pc = "idle"
                      /\ Story(call'[d], list', defined', live')
    BY DEF AloneInv, DomAt
  <2>1. \A e \in Callers : e # d => call[e].pc = "idle"
    BY <1>1 DEF AloneInv, DomAt
  <2>2. d = c
    BY <2>1 DEF DomAt
  <2>3. QED
    BY <1>3, <2>1, <2>2
<1>10. QED
  BY <1>6, <1>7, <1>8, <1>9 DEF DomInv

\* What is asked for and what is to be added are sets of sources that end.
LEMMA PendingIs ==
    ASSUME DomInv, NEW u \in Uuids
    PROVE  /\ IsFiniteSet(AskedFor(u)) /\ IsFiniteSet(Pending(u))
           /\ Pending(u) \subseteq AskedFor(u) /\ Cardinality(Pending(u)) \in Nat
           /\ Cardinality(Pending(u)) <= Cardinality(AskedFor(u))
           /\ Cardinality(AskedFor(u)) \in Nat
<1>1. IsFiniteSet(AskedFor(u))
  BY DEF DomInv, SizeInv, SizeOf
<1>2. Pending(u) \in SUBSET AskedFor(u)
  BY DEF Pending, AskedFor
<1>3. QED
  BY <1>1, <1>2, FS_Subset, FS_CardinalityType

\* The documents of a domain have k disks more, at most.
Grow(u, k) ==
    \A d \in Docs(u)' : d # Undefined =>
       \E e \in Docs(u) : e # Undefined /\ Disked(e) \in Nat /\ Disked(d) \in Nat
                          /\ Disked(d) <= Disked(e) + k

\* A call moves and has added its k disks, or gone: there are still names.
LEMMA SizeStep ==
    ASSUME DomInv, NEW c \in Callers, ~DomAt(c, "idle"), NEW r, r = call[c],
           NEW u, u = r.req.uuid, NEW q, call' = [call EXCEPT ![c] = q],
           q.pc # "idle" => q.req = r.req, Adding(q) => Adding(r) /\ q.pc # "idle",
           live' = live, \A v \in Uuids : v # u => defined'[v] = defined[v],
           NEW k \in Nat, k = IF Adding(r) /\ ~Adding(q) THEN Len(r.req.items) ELSE 0,
           Grow(u, k)
    PROVE  SizeInv'
<1>1. SizeInv /\ u \in Uuids /\ RequestSound(r.req) /\ call \in [Callers -> DomCalls]
  BY CallIs DEF DomInv
<1>2. /\ call'[c] = q /\ \A d \in Callers : d # c => call'[d] = call[d]
      /\ \A v : v # u => Under(v)' = Under(v) /\ c \notin Under(v)
      /\ \A v : Under(v)' \in SUBSET Under(v)
      /\ c \in Under(u)'  <=> q.pc # "idle"
      /\ \A v : \A d \in Under(v) : d # c => d \in Under(v)'
  <2>1. Moves(c, u, q)
    BY <1>1, UnderStep
  <2>2. QED
    BY <2>1 DEF Moves
<1>3. ASSUME NEW v \in Uuids, v # u PROVE SizeOf(v)'
  <2>1. SizeOf(v) /\ Under(v)' = Under(v) /\ c \notin Under(v) /\ defined'[v] = defined[v]
    BY <1>1, <1>2, <1>3 DEF SizeInv
  <2>2. \A d \in Under(v) : call'[d] = call[d]
    BY <1>2, <2>1 DEF Under
  <2>3. AskedFor(v)' = AskedFor(v)
    BY <2>1, <2>2 DEF AskedFor
  <2>4. Pending(v)' = Pending(v)
    BY <2>1, <2>2 DEF Pending
  <2>5. Docs(v)' = Docs(v)
    BY <2>1, <2>2 DEF Docs
  <2>6. \A d, e \in Under(v)' : d # e =>
            ItemSources(call'[d].req) \cap ItemSources(call'[e].req) = {}
    BY <2>1, <2>2 DEF SizeOf
  <2>7. QED
    BY <2>1, <2>3, <2>4, <2>5, <2>6 DEF SizeOf
<1>4. SizeOf(u)'
  <2> DEFINE S == ItemSources(r.req)
  <2>1. /\ SizeOf(u) /\ IsFiniteSet(AskedFor(u)) /\ IsFiniteSet(Pending(u))
        /\ Cardinality(Pending(u)) \in Nat /\ MaxDisks \in Nat
    BY <1>1, PendingIs, DomainConstants DEF SizeInv
  <2>2. \A d \in Under(u)' : d \in Under(u) /\ call'[d].req = call[d].req
    <3>1. \A d \in Under(u) : d \in Callers
      BY DEF Under
    <3>2. QED
      BY <1>2, <3>1
  <2>3. AskedFor(u)' \in SUBSET AskedFor(u)
    BY <2>2 DEF AskedFor
  <2>4. \A d \in Under(u)' : Adding(call'[d]) => Adding(call[d])
    <3>1. \A d \in Under(u) : d \in Callers
      BY DEF Under
    <3>2. QED
      BY <1>2, <2>2, <3>1
  <2>5. Pending(u)' \in SUBSET Pending(u)
    BY <2>2, <2>4 DEF Pending
  <2>6. \A d, e \in Under(u)' : d # e =>
            ItemSources(call'[d].req) \cap ItemSources(call'[e].req) = {}
    BY <2>1, <2>2 DEF SizeOf
  <2>7. c \in Under(u)
    BY DEF Under, DomAt, Uuid
  <2>8. /\ Cardinality(Pending(u)') \in Nat
        /\ Cardinality(Pending(u)') + k <= Cardinality(Pending(u))
    <3>0. IsFiniteSet(Pending(u)') /\ Cardinality(Pending(u)') \in Nat
          /\ Cardinality(Pending(u)') <= Cardinality(Pending(u))
      BY <2>1, <2>5, FS_Subset, FS_CardinalityType
    <3>1. CASE ~(Adding(r) /\ ~Adding(q))
      BY <2>1, <3>0, <3>1
    <3>2. CASE Adding(r) /\ ~Adding(q)
      <4>1. S \in SUBSET Sources /\ IsFiniteSet(S) /\ Cardinality(S) = k
        BY <1>1, <3>2, RequestIs
      <4>2. S \subseteq Pending(u)
        BY <2>7, <3>2, <4>1 DEF Pending
      <4>3. ASSUME NEW s \in Pending(u)' PROVE s \notin S
        <5>1. PICK d \in Under(u)' : Adding(call'[d]) /\ s \in ItemSources(call'[d].req)
          BY DEF Pending
        <5>2. d # c
          BY <1>2, <3>2, <5>1
        <5>3. d \in Under(u) /\ s \in ItemSources(call[d].req)
          BY <2>2, <5>1
        <5>4. QED
          BY <2>1, <2>7, <5>2, <5>3 DEF SizeOf
      <4> DEFINE P == Pending(u)'
      <4>4. P \cap S = {} /\ P \cup S \in SUBSET Pending(u)
        BY <2>5, <4>2, <4>3
      <4> HIDE DEF P, S
      <4>5. /\ IsFiniteSet(P \cup S)
            /\ Cardinality(P \cup S) = Cardinality(P) + Cardinality(S) - Cardinality(P \cap S)
        BY <3>0, <4>1, FS_Union DEF P
      <4>6. Cardinality(P \cup S) <= Cardinality(Pending(u))
        BY <2>1, <4>4, FS_Subset
      <4>7. Cardinality(P \cap S) = 0
        BY <4>4, FS_EmptySet
      <4>8. Cardinality(P) + k <= Cardinality(Pending(u)) /\ Cardinality(P) \in Nat
        BY <2>1, <3>0, <4>1, <4>5, <4>6, <4>7 DEF P
      <4>9. QED
        BY <4>8 DEF P
    <3>3. QED
      BY <3>1, <3>2
  <2>9. ASSUME NEW d \in Docs(u)', d # Undefined
        PROVE  Disked(d) + Cardinality(Pending(u)') <= MaxDisks
    <3>1. PICK e \in Docs(u) : /\ e # Undefined /\ Disked(e) \in Nat /\ Disked(d) \in Nat
                               /\ Disked(d) <= Disked(e) + k
      BY <2>9 DEF Grow
    <3>2. Disked(e) + Cardinality(Pending(u)) <= MaxDisks
      BY <2>1, <3>1 DEF SizeOf
    <3> DEFINE p == Cardinality(Pending(u)')
               o == Cardinality(Pending(u))
               x == Disked(d)
               y == Disked(e)
    <3>3. /\ p \in Nat /\ o \in Nat /\ x \in Nat /\ y \in Nat /\ MaxDisks \in Nat
          /\ p + k <= o /\ x <= y + k /\ y + o <= MaxDisks
      BY <2>1, <2>8, <3>1, <3>2
    <3> HIDE DEF p, o, x, y
    <3>4. x + p <= MaxDisks
      BY <3>3, SMTT(30)
    <3>5. QED
      BY <3>4 DEF x, p
  <2>10. IsFiniteSet(AskedFor(u)')
    BY <2>1, <2>3, FS_Subset
  <2>11. QED
    BY <2>6, <2>9, <2>10 DEF SizeOf
<1>5. QED
  BY <1>3, <1>4 DEF SizeInv

LEMMA DocsAre ==
    ASSUME DomInv, NEW c \in Callers, NEW u, u = call[c].req.uuid
    PROVE  /\ \A d \in Docs(u) : d \in MaybeDocument /\ (d # Undefined => Disked(d) \in Nat)
           /\ Nothing \in Docs(u) /\ defined[u] \in Docs(u) /\ live[u] \in Docs(u)
           /\ Nothing # Undefined /\ Disked(Nothing) = 0
<1>1. /\ u \in Uuids /\ defined \in [Uuids -> MaybeDocument] /\ live \in [Uuids -> MaybeDocument]
      /\ Nothing \in Document /\ Nothing # Undefined /\ Disked(Nothing) = 0
  BY CallIs, NothingIs, DomainConstants
<1>2. \A d \in Under(u) : call[d].doc \in Document
  BY CallIs DEF Under
<1>3. \A d \in MaybeDocument : d # Undefined => Disked(d) \in Nat
  BY DocumentIs DEF MaybeDocument
<1>4. \A d \in Docs(u) : d \in MaybeDocument
  BY <1>1, <1>2 DEF Docs, MaybeDocument
<1>5. QED
  BY <1>1, <1>3, <1>4 DEF Docs

\* The documents of its domain when a call has moved.
DocsMove(u, q) ==
    \A d \in Docs(u)' : d \in Docs(u) \/ d = defined'[u] \/ (q.pc # "idle" /\ d = q.doc)

LEMMA DocsStep ==
    ASSUME DomInv, NEW c \in Callers, ~DomAt(c, "idle"), NEW u, u = call[c].req.uuid,
           NEW q, call' = [call EXCEPT ![c] = q], q.pc # "idle" => q.req.uuid = u,
           live' = live
    PROVE  DocsMove(u, q)
<1>1. Moves(c, u, q)
  BY CallIs, UnderStep
<1>2. ASSUME NEW e \in Under(u)' PROVE call'[e].doc \in Docs(u) \/ (q.pc # "idle" /\ call'[e].doc = q.doc)
  <2>1. CASE e = c
    BY <1>1, <1>2, <2>1 DEF Moves
  <2>2. CASE e # c
    <3>1. e \in Under(u) /\ e \in Callers
      BY <1>1, <1>2, <2>2 DEF Moves, Under
    <3>2. call'[e] = call[e]
      BY <1>1, <2>2, <3>1 DEF Moves
    <3>3. QED
      BY <3>1, <3>2 DEF Docs
  <2>3. QED
    BY <2>1, <2>2
<1>3. QED
  BY <1>2 DEF Docs, DocsMove

\* No document and no request is new.
Same(r, q) == /\ q.pc # "idle" => q.req = r.req /\ q.doc = r.doc
              /\ Adding(q) => Adding(r) /\ q.pc # "idle"

LEMMA SizeSame ==
    ASSUME DomInv, NEW c \in Callers, ~DomAt(c, "idle"), NEW r, r = call[c],
           NEW u, u = r.req.uuid, NEW q, call' = [call EXCEPT ![c] = q],
           Same(r, q), live' = live, \A v \in Uuids : v # u => defined'[v] = defined[v],
           defined'[u] \in Docs(u) \cup {Undefined}
    PROVE  SizeInv'
<1> USE DEF Same
<1> DEFINE k == IF Adding(r) /\ ~Adding(q) THEN Len(r.req.items) ELSE 0
<1>1. k \in Nat /\ r.doc \in Docs(u)
  <2>1. c \in Under(u) /\ Len(r.req.items) \in Nat
    BY CallIs, RequestIs DEF DomAt
  <2>2. QED
    BY <2>1 DEF Docs
<1>2. \A d \in Docs(u)' : d # Undefined => d \in Docs(u)
  <2>1. u = call[c].req.uuid /\ (q.pc # "idle" => q.req.uuid = u)
    OBVIOUS
  <2>2. DocsMove(u, q)
    BY <2>1, DocsStep
  <2>3. QED
    BY <1>1, <2>2 DEF DocsMove
<1>0. k = IF Adding(r) /\ ~Adding(q) THEN Len(r.req.items) ELSE 0
  OBVIOUS
<1> HIDE DEF k
<1>3. Grow(u, k)
  <2>1. ASSUME NEW d \in Docs(u)', d # Undefined
        PROVE  d \in Docs(u) /\ Disked(d) \in Nat /\ Disked(d) <= Disked(d) + k
    <3>1. d \in Docs(u) /\ Disked(d) \in Nat
      BY <1>2, <2>1, DocsAre
    <3>2. QED
      BY <1>1, <3>1
  <2>2. QED
    BY <2>1 DEF Grow
<1>4. QED
  BY <1>0, <1>1, <1>3, SizeStep

\* A call goes on and changes nothing.
LEMMA GoStep ==
    ASSUME DomInv, NEW c \in Callers, ~DomAt(c, "idle"), NEW r, r = call[c],
           NEW u, u = r.req.uuid, NEW q \in DomCalls, DomCallSound(q),
           call' = [call EXCEPT ![c] = q], q.pc \notin {"idle", "redefine"},
           q.req = r.req, q.doc = r.doc, Adding(q) => Adding(r),
           UNCHANGED <<list, libvirt, calls, domHistory>>,
           u \notin dirty => Way(q, list, defined),
           c \in alone => Story(q, list, defined, live)
    PROVE  DomInv'
<1>1. /\ list' = list /\ defined' = defined /\ live' = live /\ calls' = calls /\ alone' = alone
      /\ kept' = kept /\ dirty' = dirty /\ stale' = stale
  BY DEF libvirt, domHistory
<1>2. /\ u \in Uuids /\ list \in SUBSET Uuids /\ defined \in [Uuids -> MaybeDocument]
      /\ kept \in [Uuids -> SUBSET Sources] /\ dirty \in SUBSET Uuids /\ stale \in SUBSET Uuids
      /\ u \notin dirty \cup stale => kept[u] \subseteq SourcesOf(defined[u])
  BY CallIs
<1>3. defined[u] \in Docs(u)
  BY DEF Docs
<1>4. SizeInv'
  <2>1. Same(r, q) /\ defined'[u] \in Docs(u) \cup {Undefined}
    BY <1>1, <1>3 DEF Same
  <2>2. \A v \in Uuids : v # u => defined'[v] = defined[v]
    BY <1>1
  <2>3. QED
    BY <1>1, <2>1, <2>2, SizeSame
<1>5. u = call[c].req.uuid /\ (q.pc # "idle" => q.req.uuid = u)
  OBVIOUS
<1>6. OnlyOf(u)
  BY <1>1 DEF OnlyOf
<1>7. u \notin dirty' => IF q.pc = "idle" THEN u \in list' <=> defined'[u] # Undefined
                         ELSE Way(q, list', defined')
  BY <1>1
<1>8. u \notin dirty' \cup stale' => /\ kept'[u] \subseteq SourcesOf(defined'[u])
                                     /\ q.pc = "redefine" => q.read = defined'[u]
  BY <1>1, <1>2
<1>9. c \in alone => Story(q, list', defined', live')
  BY <1>1
<1>10. QED
  BY <1>1, <1>2, <1>4, <1>5, <1>6, <1>7, <1>8, <1>9, DomStep

\* What a call is when it has ended.
LEMMA EndIs ==
    ASSUME DomInv, NEW c \in Callers, NEW r, r = call[c], NEW e \in {r, Failed(c)},
           NEW a \in Answers, EndAs(c, e, a)
    PROVE  \E q \in DomCalls :
              /\ call' = [call EXCEPT ![c] = q] /\ DomCallSound(q)
              /\ q.pc = "idle" /\ q.ok = a /\ ~Adding(q)
              /\ c \in alone => /\ q.req = r.req /\ q.conn = r.conn /\ q.before = r.before
                                /\ q.failed = e.failed
<1>1. /\ r \in DomCalls /\ DomCallSound(r) /\ RequestSound(r.req) /\ call \in [Callers -> DomCalls]
  BY CallIs
<1> DEFINE q == IF c \in alone THEN [e EXCEPT !.pc = "idle", !.ok = a,
                                              !.read = Nothing, !.doc = Nothing]
                ELSE [DomIdle EXCEPT !.ok = a]
<1>2. call' = [call EXCEPT ![c] = q]
  BY <1>1 DEF EndAs
<1>6. e \in DomCalls /\ e.req = r.req /\ e.conn = r.conn /\ e.before = r.before
  <2>1. CASE e = r
    BY <1>1, <2>1
  <2>2. CASE e = [r EXCEPT !.failed = TRUE]
    BY <1>1, <2>2 DEF DomCalls
  <2>3. QED
    BY <2>1, <2>2 DEF Failed
<1>3. /\ q \in DomCalls /\ q.pc = "idle" /\ q.ok = a /\ RequestSound(q.req)
      /\ c \in alone => /\ q.req = r.req /\ q.conn = r.conn /\ q.before = r.before
                        /\ q.failed = e.failed
  <2>1. Nothing \in Document /\ "idle" \in Pc
    BY NothingIs DEF Pc
  <2>2. CASE c \in alone
    BY <1>1, <1>6, <2>1, <2>2 DEF DomCalls
  <2>3. CASE c \notin alone
    BY <2>3, IdleCallIs DEF DomCalls, DomCallSound
  <2>4. QED
    BY <2>2, <2>3
<1> HIDE DEF q
<1>4. DomCallSound(q) /\ ~Adding(q)
  BY <1>3 DEF DomCallSound, Adding
<1>5. QED
  BY <1>2, <1>3, <1>4

LEMMA SizeAnswer ==
    ASSUME DomInv, NEW c \in Callers, ~DomAt(c, "idle"), NEW r, r = call[c],
           NEW u, u = r.req.uuid, NEW q, call' = [call EXCEPT ![c] = q],
           q.pc = "idle", ~Adding(q), live' = live,
           \A v \in Uuids : v # u => defined'[v] = defined[v],
           defined'[u] \in Docs(u) \cup {Undefined}
    PROVE  SizeInv'
<1>1. Same(r, q)
  BY DEF Same
<1>2. QED
  BY <1>1, SizeSame

\* The answer a of the call r is true, whether something failed or not; and so
\* is what the caller learns if put raises after it.
EndTells(r, failed, a) ==
    \A q : /\ q.req = r.req /\ q.conn = r.conn /\ q.before = r.before
           /\ q.failed = failed /\ q.ok = a
           => Told(q, list', defined')
Tells(r, a) == /\ \A failed : EndTells(r, failed, a)
               /\ r.conn => EndTells(r, TRUE, "raised")

\* A call ends.
LEMMA EndStep ==
    ASSUME DomInv, NEW c \in Callers, ~DomAt(c, "idle"), NEW r, r = call[c],
           NEW u, u = r.req.uuid, NEW e \in {r, Failed(c)}, NEW a \in Answers, EndAs(c, e, a),
           calls' = calls, alone' = alone, live' = live, list' \in SUBSET Uuids,
           defined' \in [Uuids -> MaybeDocument], kept' \in [Uuids -> SUBSET Sources],
           dirty' \in SUBSET Uuids, stale' \in SUBSET Uuids,
           dirty \subseteq dirty', stale \subseteq stale',
           OnlyOf(u),
           defined'[u] \in Docs(u) \cup {Undefined} \/ SizeInv',
           u \notin dirty' => (u \in list' <=> defined'[u] # Undefined),
           u \notin dirty' \cup stale' => kept'[u] \subseteq SourcesOf(defined'[u]),
           c \in alone => EndTells(r, e.failed, a)
    PROVE  DomInv'
<1>1. PICK q \in DomCalls :
         /\ call' = [call EXCEPT ![c] = q] /\ DomCallSound(q)
         /\ q.pc = "idle" /\ q.ok = a /\ ~Adding(q)
         /\ c \in alone => /\ q.req = r.req /\ q.conn = r.conn /\ q.before = r.before
                           /\ q.failed = e.failed
  BY EndIs
<1>2. SizeInv'
  <2> SUFFICES ASSUME defined'[u] \in Docs(u) \cup {Undefined} PROVE SizeInv'
    OBVIOUS
  <2>1. \A v \in Uuids : v # u => defined'[v] = defined[v]
    BY DEF OnlyOf
  <2>2. call' = [call EXCEPT ![c] = q] /\ q.pc = "idle" /\ ~Adding(q)
    BY <1>1
  <2>3. QED
    BY <2>1, <2>2, SizeAnswer, ZenonT(60)
<1>3. c \in alone => Story(q, list', defined', live')
  BY <1>1 DEF Story, EndTells
<1>4. u = call[c].req.uuid
  OBVIOUS
<1>5. u \notin dirty' => IF q.pc = "idle" THEN u \in list' <=> defined'[u] # Undefined
                         ELSE Way(q, list', defined')
  BY <1>1
<1>6. u \notin dirty' \cup stale' => /\ kept'[u] \subseteq SourcesOf(defined'[u])
                                     /\ q.pc = "redefine" => q.read = defined'[u]
  BY <1>1
<1>7. /\ q.pc # "idle" => q.req.uuid = u
      /\ call' = [call EXCEPT ![c] = q] /\ DomCallSound(q)
  BY <1>1
<1>8. QED
  BY <1>2, <1>3, <1>4, <1>5, <1>6, <1>7, DomStep, ZenonT(60)

\* A call answers, and put gives its connection back or raises.
LEMMA AnswerStep ==
    ASSUME DomInv, NEW c \in Callers, ~DomAt(c, "idle"), NEW r, r = call[c],
           NEW u, u = r.req.uuid, NEW a \in Answers, Answer(c, a),
           calls' = calls, alone' = alone, live' = live, list' \in SUBSET Uuids,
           defined' \in [Uuids -> MaybeDocument], kept' \in [Uuids -> SUBSET Sources],
           dirty' \in SUBSET Uuids, stale' \in SUBSET Uuids,
           dirty \subseteq dirty', stale \subseteq stale',
           OnlyOf(u),
           defined'[u] \in Docs(u) \cup {Undefined},
           u \notin dirty' => (u \in list' <=> defined'[u] # Undefined),
           u \notin dirty' \cup stale' => kept'[u] \subseteq SourcesOf(defined'[u]),
           c \in alone => Tells(r, a)
    PROVE  DomInv'
<1>1. ASSUME NEW e \in {r, Failed(c)}, NEW b \in Answers, EndAs(c, e, b),
             c \in alone => EndTells(r, e.failed, b)
      PROVE  DomInv'
  BY <1>1, EndStep, ZenonT(60)
<1>2. CASE EndAs(c, call[c], a)
  <2>1. c \in alone => EndTells(r, r.failed, a)
    BY DEF Tells
  <2>2. r \in {r, Failed(c)} /\ EndAs(c, r, a)
    BY <1>2
  <2>3. QED
    BY <1>1, <2>1, <2>2
<1>3. CASE call[c].conn /\ EndAs(c, Failed(c), "raised")
  <2>1. Failed(c).failed = TRUE
    BY CallIs DEF Failed, DomCalls
  <2>2. c \in alone => EndTells(r, Failed(c).failed, "raised")
    BY <1>3, <2>1 DEF Tells
  <2>3. "raised" \in Answers
    BY DEF Answers
  <2>4. QED
    BY <1>1, <1>3, <2>2, <2>3
<1>4. QED
  BY <1>2, <1>3 DEF Answer

\* A call ends before it has changed anything.
LEMMA RefuseEnd ==
    ASSUME DomInv, NEW c \in Callers, NEW r, r = call[c],
           r.pc \in {"get", "exists", "define", "undefine", "read", "redefine"},
           NEW e \in {r, Failed(c)}, NEW a \in Answers \ {"none", "OK"}, EndAs(c, e, a),
           UNCHANGED <<list, libvirt, calls, alone, kept, dirty>>,
           stale' \in SUBSET Uuids, stale \subseteq stale'
    PROVE  DomInv'
<1> DEFINE u == r.req.uuid
<1>1. /\ list' = list /\ defined' = defined /\ live' = live /\ calls' = calls /\ alone' = alone
      /\ kept' = kept /\ dirty' = dirty
  BY DEF libvirt
<1>2. /\ u \in Uuids /\ list \in SUBSET Uuids /\ defined \in [Uuids -> MaybeDocument]
      /\ kept \in [Uuids -> SUBSET Sources] /\ dirty \in SUBSET Uuids
      /\ u \notin dirty \cup stale => kept[u] \subseteq SourcesOf(defined[u])
      /\ r.pc # "idle" /\ u \notin dirty => Way(r, list, defined)
      /\ c \in alone => Story(r, list, defined, live)
  BY CallIs
<1>3. ~DomAt(c, "idle") /\ r.pc # "idle"
  BY DEF DomAt
<1>4. u \notin dirty => (u \in list <=> defined[u] # Undefined)
  BY <1>2, <1>3 DEF Way
<1>5. c \in alone => EndTells(r, e.failed, a)
  BY <1>1, <1>2 DEF Story, Told, Undone, EndTells
<1>6. defined'[u] \in Docs(u) \cup {Undefined}
  BY <1>1 DEF Docs
<1>7. u \notin dirty' => (u \in list' <=> defined'[u] # Undefined)
  BY <1>1, <1>4
<1>8. u \notin dirty' \cup stale' => kept'[u] \subseteq SourcesOf(defined'[u])
  BY <1>1, <1>2
<1>9. OnlyOf(u)
  BY <1>1 DEF OnlyOf
<1>10. a \in Answers /\ u = r.req.uuid
  OBVIOUS
<1> HIDE DEF u
<1>11. QED
  BY <1>1, <1>2, <1>3, <1>5, <1>6, <1>7, <1>8, <1>9, <1>10, EndStep, ZenonT(60)

\* A call is refused before it has changed anything.
LEMMA RefuseStep ==
    ASSUME DomInv, NEW c \in Callers, NEW r, r = call[c],
           r.pc \in {"get", "exists", "define", "undefine", "read", "redefine"},
           NEW a \in Answers \ {"none", "OK"}, Answer(c, a),
           UNCHANGED <<list, libvirt, calls, alone, kept, dirty>>,
           stale' \in SUBSET Uuids, stale \subseteq stale'
    PROVE  DomInv'
<1>1. r \in {r, Failed(c)} /\ Failed(c) \in {r, Failed(c)} /\ "raised" \in Answers \ {"none", "OK"}
  BY DEF Answers
<1>2. EndAs(c, r, a) \/ EndAs(c, Failed(c), "raised")
  BY DEF Answer
<1>3. QED
  BY <1>1, <1>2, RefuseEnd

-----------------------------------------------------------------------------
(* CreateDomain, DeleteDomain and ModifyDomain                             *)

\* What a call is when it has gone on.
LEMMA GotoIs ==
    ASSUME DomInv, NEW c \in Callers, NEW r, r = call[c], NEW p \in Pc, Goto(c, p)
    PROVE  \E q \in DomCalls :
              /\ call' = [call EXCEPT ![c] = q] /\ q.pc = p /\ q.req = r.req /\ q.conn = r.conn
              /\ q.read = r.read /\ q.doc = r.doc /\ q.ok = r.ok /\ q.before = r.before
<1>1. r \in DomCalls /\ call \in [Callers -> DomCalls]
  BY CallIs
<1> DEFINE q == [r EXCEPT !.pc = p]
<1>2. call' = [call EXCEPT ![c] = q]
  BY <1>1 DEF Goto
<1>3. /\ q \in DomCalls /\ q.pc = p /\ q.req = r.req /\ q.conn = r.conn
      /\ q.read = r.read /\ q.doc = r.doc /\ q.ok = r.ok /\ q.before = r.before
  BY <1>1 DEF DomCalls
<1> HIDE DEF q
<1>4. QED
  BY <1>2, <1>3

LEMMA GetConnKeeps ==
    ASSUME DomInv, NEW c \in Callers, GetConn(c)
    PROVE  DomInv'
<1> DEFINE r == call[c]
           u == r.req.uuid
<1>1. /\ r \in DomCalls /\ DomCallSound(r) /\ call \in [Callers -> DomCalls]
      /\ u \notin dirty => Way(r, list, defined)
      /\ c \in alone => Story(r, list, defined, live)
      /\ r.pc = "get" /\ ~DomAt(c, "idle")
      /\ UNCHANGED <<list, libvirt, calls, domHistory>>
  BY CallIs DEF GetConn, DomAt
<1>2. ASSUME NEW q \in DomCalls, call' = [call EXCEPT ![c] = q], q.pc = "exists",
             q.req = r.req, q.doc = r.doc, q.ok = r.ok, q.before = r.before
      PROVE  DomInv'
  <2>1. DomCallSound(q)
    BY <1>1, <1>2 DEF DomCallSound
  <2>2. Adding(q) => Adding(r)
    BY <1>1, <1>2 DEF Adding
  <2>3. u \notin dirty => Way(q, list, defined)
    BY <1>1, <1>2 DEF Way
  <2>4. c \in alone => Story(q, list, defined, live)
    BY <1>1, <1>2 DEF Story
  <2>5. q.pc \notin {"idle", "redefine"}
    BY <1>2
  <2> HIDE DEF r, u
  <2>6. r = call[c] /\ u = r.req.uuid
    BY DEF r, u
  <2>7. QED
    BY <1>1, <1>2, <2>1, <2>2, <2>3, <2>4, <2>5, <2>6, GoStep
<1>3. CASE Goto(c, "exists")
  <2>1. "exists" \in Pc /\ r = call[c]
    BY DEF Pc
  <2> HIDE DEF r
  <2>2. \E q \in DomCalls :
              /\ call' = [call EXCEPT ![c] = q] /\ q.pc = "exists" /\ q.req = r.req
              /\ q.conn = r.conn
              /\ q.read = r.read /\ q.doc = r.doc /\ q.ok = r.ok /\ q.before = r.before
    BY <1>3, <2>1, GotoIs
  <2>3. QED
    BY <1>2, <2>2
<1>4. CASE call' = [call EXCEPT ![c].pc = "exists", ![c].conn = FALSE, ![c].failed = TRUE]
  <2> DEFINE q == [r EXCEPT !.pc = "exists", !.conn = FALSE, !.failed = TRUE]
  <2>1. call' = [call EXCEPT ![c] = q]
    BY <1>1, <1>4
  <2>2. "exists" \in Pc /\ FALSE \in BOOLEAN /\ TRUE \in BOOLEAN
    BY DEF Pc
  <2>3. /\ q \in DomCalls /\ q.pc = "exists" /\ q.req = r.req /\ q.doc = r.doc
        /\ q.ok = r.ok /\ q.before = r.before
    BY <1>1, <2>2 DEF DomCalls
  <2> HIDE DEF q, r
  <2>4. QED
    BY <1>2, <2>1, <2>3
<1>5. CASE EndAs(c, call[c], "raised")
  <2>1. "raised" \in Answers \ {"none", "OK"} /\ r \in {r, Failed(c)} /\ EndAs(c, r, "raised")
    BY <1>5 DEF Answers
  <2>2. /\ UNCHANGED <<list, libvirt, calls, alone, kept, dirty>>
        /\ stale' \in SUBSET Uuids /\ stale \subseteq stale'
    BY <1>1, CallIs DEF domHistory
  <2>3. r = call[c] /\ r.pc \in {"get", "exists", "define", "undefine", "read", "redefine"}
    BY <1>1
  <2>4. QED
    BY <2>1, <2>2, <2>3, RefuseEnd
<1>6. QED
  BY <1>3, <1>4, <1>5 DEF GetConn

LEMMA ExistsKeeps ==
    ASSUME DomInv, NEW c \in Callers, Exists(c)
    PROVE  DomInv'
<1> DEFINE r == call[c]
           u == r.req.uuid
<1>1. /\ r \in DomCalls /\ DomCallSound(r) /\ RequestSound(r.req)
      /\ u \notin dirty => Way(r, list, defined)
      /\ c \in alone => Story(r, list, defined, live)
      /\ r.pc = "exists" /\ ~DomAt(c, "idle") /\ Uuid(c) = u
      /\ UNCHANGED <<list, libvirt, calls, domHistory>>
  BY CallIs DEF Exists, DomAt, Uuid
<1>2. ASSUME NEW a, Answer(c, a), a \in {"INVALID_UUID", "INTERNAL_ERROR"} PROVE DomInv'
  <2>1. a \in Answers \ {"none", "OK"}
    BY <1>2 DEF Answers
  <2>2. /\ UNCHANGED <<list, libvirt, calls, alone, kept, dirty>>
        /\ stale' \in SUBSET Uuids /\ stale \subseteq stale'
    BY <1>1, CallIs DEF domHistory
  <2>3. r = call[c] /\ r.pc \in {"get", "exists", "define", "undefine", "read", "redefine"}
    BY <1>1
  <2>4. QED
    BY <1>2, <2>1, <2>2, <2>3, RefuseStep
<1>3. ASSUME NEW p, Goto(c, p),
             \/ p = "define" /\ r.req.op = "Create" /\ u \notin list /\ r.conn
             \/ p = "append" /\ r.req.op = "Create" /\ u \notin list /\ ~r.conn
             \/ p = "undefine" /\ r.req.op = "Delete" /\ u \in list /\ r.conn
             \/ p = "pop" /\ r.req.op = "Delete" /\ u \in list /\ ~r.conn
             \/ p = "read" /\ r.req.op \in Modifications /\ u \in list /\ r.conn
      PROVE  DomInv'
  <2>1. p \in Pc /\ r = call[c] /\ u = r.req.uuid
    BY <1>3 DEF Pc
  <2>2. PICK q \in DomCalls :
              /\ call' = [call EXCEPT ![c] = q] /\ q.pc = p /\ q.req = r.req /\ q.conn = r.conn
              /\ q.read = r.read /\ q.doc = r.doc /\ q.ok = r.ok /\ q.before = r.before
    BY <1>3, <2>1, GotoIs
  <2> HIDE DEF r, u
  <2>3. DomCallSound(q)
    BY <1>1, <1>3, <2>2 DEF DomCallSound
  <2>4. Adding(q) => Adding(r)
    BY <1>1, <1>3, <2>2 DEF Adding
  <2>5. u \notin dirty => Way(q, list, defined)
    BY <1>1, <1>3, <2>1, <2>2 DEF Way
  <2>6. c \in alone => Story(q, list, defined, live)
    BY <1>1, <1>3, <2>1, <2>2 DEF Story
  <2>7. q.pc \notin {"idle", "redefine"}
    BY <1>3, <2>2
  <2>8. QED
    BY <1>1, <2>1, <2>2, <2>3, <2>4, <2>5, <2>6, <2>7, GoStep
<1>4. r.req.op \in {"Create", "Delete"} \cup Modifications /\ r.conn \in BOOLEAN
  BY <1>1, RequestIs DEF DomCalls
<1>5. "Create" \notin Modifications /\ "Delete" \notin Modifications
  BY DEF Modifications
<1>6. CASE (r.req.op = "Create") = (u \in list)
  BY <1>1, <1>2, <1>6 DEF Exists
<1>7. CASE ~((r.req.op = "Create") = (u \in list))
  <2>1. CASE r.req.op = "Create"
    <3>1. Goto(c, IF r.conn THEN "define" ELSE "append") /\ u \notin list
      BY <1>1, <1>7, <2>1 DEF Exists
    <3>2. QED
      BY <1>3, <1>4, <2>1, <3>1
  <2>2. CASE r.req.op = "Delete"
    <3>1. Goto(c, IF r.conn THEN "undefine" ELSE "pop") /\ u \in list
      BY <1>1, <1>7, <2>2 DEF Exists
    <3>2. QED
      BY <1>3, <1>4, <2>2, <3>1
  <2>3. CASE r.req.op \in Modifications
    <3>1. /\ u \in list
          /\ IF r.conn THEN Goto(c, "read") ELSE Answer(c, "INTERNAL_ERROR")
      BY <1>1, <1>5, <1>7, <2>3 DEF Exists
    <3>2. QED
      BY <1>2, <1>3, <1>4, <2>3, <3>1
  <2>4. QED
    BY <1>4, <2>1, <2>2, <2>3
<1>8. QED
  BY <1>6, <1>7

LEMMA SourcesAre ==
    ASSUME NEW d \in Document
    PROVE  SourcesOf(d) \in SUBSET Sources
BY DocumentIs

\* A new document has the disks that were asked for: there are still names.
LEMMA SizeDefine ==
    ASSUME DomInv, NEW c \in Callers, NEW r, r = call[c], r.pc = "define",
           NEW u, u = r.req.uuid, NEW q, call' = [call EXCEPT ![c] = q],
           q.pc # "idle" => q.req = r.req /\ q.doc = r.doc, ~Adding(q),
           live' = live, DefineXML(u, Created(r.req))
    PROVE  SizeInv'
<1>1. PICK d : d = Created(r.req)
  OBVIOUS
<1>2. /\ DomCallSound(r) /\ RequestSound(r.req) /\ ~DomAt(c, "idle") /\ c \in Under(u)
      /\ defined \in [Uuids -> MaybeDocument] /\ u \in Uuids
  BY CallIs DEF DomAt
<1>3. d \in Document /\ Disked(d) = Len(r.req.items) /\ Disked(d) \in Nat
      /\ Len(r.req.items) \in Nat
  BY <1>1, <1>2, CreatedIs, DocumentIs
<1>4. defined'[u] = d /\ \A v \in Uuids : v # u => defined'[v] = defined[v]
  BY <1>1, <1>2 DEF DefineXML
<1>5. Adding(r)
  BY <1>2 DEF DomCallSound, Adding
<1> DEFINE k == Len(r.req.items)
<1>6. k \in Nat /\ k = IF Adding(r) /\ ~Adding(q) THEN Len(r.req.items) ELSE 0
  BY <1>3, <1>5
<1>7. DocsMove(u, q) /\ r.doc \in Docs(u)
  <2>1. u = call[c].req.uuid /\ (q.pc # "idle" => q.req.uuid = u)
    OBVIOUS
  <2>2. DocsMove(u, q)
    BY <1>2, <2>1, DocsStep
  <2>3. QED
    BY <1>2, <2>2 DEF Docs
<1> HIDE DEF k
<1>8. Grow(u, k)
  <2>1. ASSUME NEW e \in Docs(u)', e # Undefined
        PROVE  \E f \in Docs(u) : f # Undefined /\ Disked(f) \in Nat /\ Disked(e) \in Nat
                                  /\ Disked(e) <= Disked(f) + k
    <3>1. CASE e \in Docs(u)
      <4>1. Disked(e) \in Nat
        BY <2>1, <3>1, DocsAre
      <4>2. Disked(e) <= Disked(e) + k
        BY <1>6, <4>1
      <4>3. QED
        BY <2>1, <3>1, <4>1, <4>2
    <3>2. CASE e = d
      <4>1. Nothing \in Docs(u) /\ Nothing # Undefined /\ Disked(Nothing) = 0
        BY DocsAre
      <4>2. Disked(e) \in Nat /\ 0 \in Nat /\ Disked(e) <= 0 + k
        BY <1>3, <3>2 DEF k
      <4>3. QED
        BY <4>1, <4>2
    <3>3. QED
      BY <1>4, <1>7, <2>1, <3>1, <3>2 DEF DocsMove
  <2>2. QED
    BY <2>1 DEF Grow
<1>9. /\ q.pc # "idle" => q.req = r.req
      /\ Adding(q) => Adding(r) /\ q.pc # "idle"
  OBVIOUS
<1>10. QED
  BY <1>2, <1>4, <1>6, <1>8, <1>9, SizeStep

LEMMA DefineKeeps ==
    ASSUME DomInv, NEW c \in Callers, Define(c)
    PROVE  DomInv'
<1>1. PICK r, u, d : r = call[c] /\ u = r.req.uuid /\ d = Created(r.req)
  OBVIOUS
<1>2. /\ r \in DomCalls /\ DomCallSound(r) /\ RequestSound(r.req) /\ u \in Uuids
      /\ defined \in [Uuids -> MaybeDocument] /\ kept \in [Uuids -> SUBSET Sources]
      /\ list \in SUBSET Uuids /\ dirty \in SUBSET Uuids /\ stale \in SUBSET Uuids
      /\ r.pc = "define" /\ ~DomAt(c, "idle") /\ Uuid(c) = u /\ c \in Under(u)
      /\ u \notin dirty => Way(r, list, defined)
      /\ c \in alone => Story(r, list, defined, live)
  BY <1>1, CallIs DEF Define, DomAt, Uuid
<1>3. d \in Document /\ d # Undefined /\ Disked(d) = Len(r.req.items) /\ Disked(d) \in Nat
      /\ SourcesOf(d) \in SUBSET Sources /\ Len(r.req.items) \in Nat
  BY <1>1, <1>2, CreatedIs, DocumentIs, SourcesAre
<1>4. /\ defined' = [defined EXCEPT ![u] = d] /\ kept' = [kept EXCEPT ![u] = SourcesOf(d)]
      /\ DefineXML(u, Created(r.req)) /\ Goto(c, "append") /\ list' = list /\ live' = live /\ calls' = calls /\ alone' = alone
      /\ dirty' = dirty /\ stale' = stale
  BY <1>1, <1>2 DEF Define, DefineXML
<1>5. /\ defined'[u] = d /\ kept'[u] = SourcesOf(d)
      /\ defined' \in [Uuids -> MaybeDocument] /\ kept' \in [Uuids -> SUBSET Sources]
      /\ \A v \in Uuids : v # u => defined'[v] = defined[v] /\ kept'[v] = kept[v]
  BY <1>2, <1>3, <1>4 DEF MaybeDocument
<1>6. PICK q \in DomCalls :
         /\ call' = [call EXCEPT ![c] = q] /\ q.pc = "append" /\ q.req = r.req /\ q.conn = r.conn
         /\ q.read = r.read /\ q.doc = r.doc /\ q.ok = r.ok /\ q.before = r.before
  <2>1. "append" \in Pc
    BY DEF Pc
  <2>2. QED
    BY <1>1, <1>4, <2>1, GotoIs
<1>7. r.req.op = "Create" /\ r.conn /\ DomCallSound(q) /\ Adding(r) /\ ~Adding(q)
  BY <1>2, <1>6 DEF DomCallSound, Adding
<1>8. SizeInv'
  BY <1>1, <1>2, <1>4, <1>6, <1>7, SizeDefine
<1>9. OnlyOf(u)
  BY <1>4, <1>5 DEF OnlyOf
<1>10. u \notin dirty' => IF q.pc = "idle" THEN u \in list' <=> defined'[u] # Undefined
                          ELSE Way(q, list', defined')
  BY <1>1, <1>2, <1>3, <1>4, <1>5, <1>6, <1>7 DEF Way
<1>11. u \notin dirty' \cup stale' => /\ kept'[u] \subseteq SourcesOf(defined'[u])
                                      /\ q.pc = "redefine" => q.read = defined'[u]
  BY <1>5, <1>6
<1>12. c \in alone => Story(q, list', defined', live')
  BY <1>1, <1>2, <1>3, <1>4, <1>5, <1>6, <1>7 DEF Story
<1>13. u = call[c].req.uuid /\ (q.pc # "idle" => q.req.uuid = u)
  BY <1>1, <1>6
<1>14. list' \in SUBSET Uuids /\ dirty' \in SUBSET Uuids /\ stale' \in SUBSET Uuids
       /\ dirty \subseteq dirty' /\ stale \subseteq stale'
  BY <1>2, <1>4
<1>15. QED
  BY <1>2, <1>4, <1>5, <1>6, <1>7, <1>8, <1>9, <1>10, <1>11, <1>12, <1>13, <1>14, DomStep,
     ZenonT(60)

LEMMA AppendDomainKeeps ==
    ASSUME DomInv, NEW c \in Callers, AppendDomain(c)
    PROVE  DomInv'
<1>1. PICK r, u : r = call[c] /\ u = r.req.uuid
  OBVIOUS
<1>2. /\ r \in DomCalls /\ DomCallSound(r) /\ RequestSound(r.req) /\ u \in Uuids
      /\ defined \in [Uuids -> MaybeDocument] /\ kept \in [Uuids -> SUBSET Sources]
      /\ list \in SUBSET Uuids /\ dirty \in SUBSET Uuids /\ stale \in SUBSET Uuids
      /\ r.pc = "append" /\ ~DomAt(c, "idle") /\ Uuid(c) = u /\ r.conn \in BOOLEAN
      /\ u \notin dirty => Way(r, list, defined)
      /\ u \notin dirty \cup stale => kept[u] \subseteq SourcesOf(defined[u])
      /\ c \in alone => Story(r, list, defined, live)
  BY <1>1, CallIs DEF AppendDomain, DomAt, Uuid
<1>3. PICK a \in Answers :
         Answer(c, a) /\ a = IF u \in list THEN "INTERNAL_ERROR" ELSE "OK"
  <2>1. "INTERNAL_ERROR" \in Answers /\ "OK" \in Answers
    BY DEF Answers
  <2>2. QED
    BY <1>2, <2>1 DEF AppendDomain
<1>4. /\ list' = list \cup {u} /\ defined' = defined /\ live' = live /\ calls' = calls
      /\ alone' = alone /\ kept' = kept /\ stale' = stale
      /\ dirty' = IF r.conn THEN dirty ELSE dirty \cup {u}
  BY <1>1, <1>2 DEF AppendDomain, WithoutConn, libvirt
<1>5. OnlyOf(u)
  BY <1>4 DEF OnlyOf
<1>6. defined'[u] \in Docs(u) \cup {Undefined}
  BY <1>4 DEF Docs
<1>7. u \notin dirty' => (u \in list' <=> defined'[u] # Undefined)
  BY <1>1, <1>2, <1>4 DEF Way
<1>8. u \notin dirty' \cup stale' => kept'[u] \subseteq SourcesOf(defined'[u])
  BY <1>2, <1>4
<1>9. c \in alone => Tells(r, a)
  <2> SUFFICES ASSUME c \in alone, NEW q, q.req = r.req, q.conn = r.conn, q.before = r.before,
                      q.ok = a \/ (r.conn /\ q.failed = TRUE /\ q.ok = "raised")
               PROVE  Told(q, list', defined')
    BY DEF Tells, EndTells
  <2>1. u \notin list /\ a = "OK" /\ (r.conn => defined'[u] = Created(r.req)) /\ u \in list'
    BY <1>1, <1>2, <1>3, <1>4 DEF Story
  <2>2. r.req.op = "Create"
    BY <1>2 DEF DomCallSound
  <2>3. r.conn => /\ defined'[u] # Undefined
                  /\ \A i \in DOMAIN r.req.items : \/ r.req.items[i].src \in SourcesOf(defined'[u])
                                                   \/ Displaced(r.req.items, i)
    <3>1. PICK d : d = Created(r.req)
      OBVIOUS
    <3>2. /\ d \in Document /\ d # Undefined
          /\ \A i \in DOMAIN r.req.items :
                r.req.items[i].src \in SourcesOf(d) \/ Displaced(r.req.items, i)
      BY <1>2, <3>1, CreatedIs, DocumentIs
    <3>3. QED
      BY <2>1, <3>1, <3>2
  <2>4. CASE q.ok = a
    BY <1>1, <2>1, <2>2, <2>3, <2>4 DEF Told
  <2>5. CASE r.conn /\ q.failed = TRUE /\ q.ok = "raised"
    <3>1. defined'[u] = Goal(q)
      BY <2>1, <2>2, <2>5 DEF Goal
    <3>2. u \in list' <=> q.req.op # "Delete"
      BY <2>1, <2>2
    <3>3. QED
      BY <1>1, <2>5, <3>1, <3>2 DEF Told, Undone
  <2>6. QED
    BY <2>4, <2>5
<1>10. /\ list' \in SUBSET Uuids /\ dirty' \in SUBSET Uuids /\ stale' \in SUBSET Uuids
       /\ dirty \subseteq dirty' /\ stale \subseteq stale'
       /\ defined' \in [Uuids -> MaybeDocument] /\ kept' \in [Uuids -> SUBSET Sources]
  BY <1>2, <1>4
<1>11. QED
  BY <1>1, <1>2, <1>3, <1>4, <1>5, <1>6, <1>7, <1>8, <1>9, <1>10, AnswerStep, ZenonT(60)

LEMMA UndefineKeeps ==
    ASSUME DomInv, NEW c \in Callers, Undefine(c)
    PROVE  DomInv'
<1>1. PICK r, u : r = call[c] /\ u = r.req.uuid
  OBVIOUS
<1>2. /\ r \in DomCalls /\ DomCallSound(r) /\ RequestSound(r.req) /\ u \in Uuids
      /\ defined \in [Uuids -> MaybeDocument] /\ kept \in [Uuids -> SUBSET Sources]
      /\ list \in SUBSET Uuids /\ dirty \in SUBSET Uuids /\ stale \in SUBSET Uuids
      /\ r.pc = "undefine" /\ ~DomAt(c, "idle") /\ Uuid(c) = u
      /\ u \notin dirty => Way(r, list, defined)
      /\ c \in alone => Story(r, list, defined, live)
  BY <1>1, CallIs DEF Undefine, DomAt, Uuid
<1>3. /\ list' = list /\ live' = live /\ calls' = calls /\ alone' = alone
      /\ dirty' = dirty /\ stale' = stale
  BY DEF Undefine
<1>4. CASE defined[u] = Undefined
  <2>1. Answer(c, "LIBVIRT_ERROR") /\ defined' = defined /\ kept' = kept
    BY <1>2, <1>4 DEF Undefine
  <2>2. "LIBVIRT_ERROR" \in Answers \ {"none", "OK"}
    BY DEF Answers
  <2>3. /\ UNCHANGED <<list, libvirt, calls, alone, kept, dirty>>
        /\ stale' \in SUBSET Uuids /\ stale \subseteq stale'
    BY <1>2, <1>3, <2>1 DEF libvirt
  <2>4. r = call[c] /\ r.pc \in {"get", "exists", "define", "undefine", "read", "redefine"}
    BY <1>1, <1>2
  <2>5. QED
    BY <2>1, <2>2, <2>3, <2>4, RefuseStep
<1>5. CASE defined[u] # Undefined
  <2>1. /\ defined' = [defined EXCEPT ![u] = Undefined] /\ kept' = [kept EXCEPT ![u] = {}]
        /\ Goto(c, "pop")
    BY <1>2, <1>5 DEF Undefine, UndefineXML
  <2>2. /\ defined'[u] = Undefined /\ kept'[u] = {}
        /\ defined' \in [Uuids -> MaybeDocument] /\ kept' \in [Uuids -> SUBSET Sources]
        /\ \A v \in Uuids : v # u => defined'[v] = defined[v] /\ kept'[v] = kept[v]
    BY <1>2, <2>1 DEF MaybeDocument
  <2>3. PICK q \in DomCalls :
           /\ call' = [call EXCEPT ![c] = q] /\ q.pc = "pop" /\ q.req = r.req /\ q.conn = r.conn
           /\ q.read = r.read /\ q.doc = r.doc /\ q.ok = r.ok /\ q.before = r.before
    <3>1. "pop" \in Pc
      BY DEF Pc
    <3>2. QED
      BY <1>1, <2>1, <3>1, GotoIs
  <2>4. r.req.op = "Delete" /\ r.conn /\ DomCallSound(q) /\ ~Adding(q)
    BY <1>2, <2>3 DEF DomCallSound, Adding
  <2>5. SizeInv'
    <3>1. Same(r, q)
      BY <2>3, <2>4 DEF Same
    <3>2. \A v \in Uuids : v # u => defined'[v] = defined[v]
      BY <2>2
    <3>3. defined'[u] \in Docs(u) \cup {Undefined}
      BY <2>2
    <3>4. QED
      BY <1>1, <1>2, <1>3, <2>3, <3>1, <3>2, <3>3, SizeSame, ZenonT(60)
  <2>6. OnlyOf(u)
    BY <1>3, <2>2 DEF OnlyOf
  <2>7. u \notin dirty' => IF q.pc = "idle" THEN u \in list' <=> defined'[u] # Undefined
                           ELSE Way(q, list', defined')
    BY <1>1, <1>2, <1>3, <2>2, <2>3, <2>4 DEF Way
  <2>8. u \notin dirty' \cup stale' => /\ kept'[u] \subseteq SourcesOf(defined'[u])
                                       /\ q.pc = "redefine" => q.read = defined'[u]
    BY <2>2, <2>3
  <2>9. c \in alone => Story(q, list', defined', live')
    BY <1>1, <1>2, <1>3, <2>2, <2>3 DEF Story
  <2>10. u = call[c].req.uuid /\ (q.pc # "idle" => q.req.uuid = u)
    BY <1>1, <2>3
  <2>11. list' \in SUBSET Uuids /\ dirty' \in SUBSET Uuids /\ stale' \in SUBSET Uuids
         /\ dirty \subseteq dirty' /\ stale \subseteq stale'
    BY <1>2, <1>3
  <2>12. QED
    BY <1>2, <1>3, <2>2, <2>3, <2>4, <2>5, <2>6, <2>7, <2>8, <2>9, <2>10, <2>11, DomStep,
       ZenonT(60)
<1>6. QED
  BY <1>4, <1>5

LEMMA PopDomainKeeps ==
    ASSUME DomInv, NEW c \in Callers, PopDomain(c)
    PROVE  DomInv'
<1>1. PICK r, u : r = call[c] /\ u = r.req.uuid
  OBVIOUS
<1>2. /\ r \in DomCalls /\ DomCallSound(r) /\ RequestSound(r.req) /\ u \in Uuids
      /\ defined \in [Uuids -> MaybeDocument] /\ kept \in [Uuids -> SUBSET Sources]
      /\ list \in SUBSET Uuids /\ dirty \in SUBSET Uuids /\ stale \in SUBSET Uuids
      /\ r.pc = "pop" /\ ~DomAt(c, "idle") /\ Uuid(c) = u /\ r.conn \in BOOLEAN
      /\ u \notin dirty => Way(r, list, defined)
      /\ u \notin dirty \cup stale => kept[u] \subseteq SourcesOf(defined[u])
      /\ c \in alone => Story(r, list, defined, live)
  BY <1>1, CallIs DEF PopDomain, DomAt, Uuid
<1>3. PICK a \in Answers :
         Answer(c, a) /\ a = IF u \in list THEN "OK" ELSE "INVALID_UUID"
  <2>1. "INVALID_UUID" \in Answers /\ "OK" \in Answers
    BY DEF Answers
  <2>2. QED
    BY <1>2, <2>1 DEF PopDomain
<1>4. /\ list' = list \ {u} /\ defined' = defined /\ live' = live /\ calls' = calls
      /\ alone' = alone /\ kept' = kept /\ stale' = stale
      /\ dirty' = IF r.conn THEN dirty ELSE dirty \cup {u}
  BY <1>1, <1>2 DEF PopDomain, WithoutConn, libvirt
<1>5. OnlyOf(u)
  BY <1>4 DEF OnlyOf
<1>6. defined'[u] \in Docs(u) \cup {Undefined}
  BY <1>4 DEF Docs
<1>7. u \notin dirty' => (u \in list' <=> defined'[u] # Undefined)
  BY <1>1, <1>2, <1>4 DEF Way
<1>8. u \notin dirty' \cup stale' => kept'[u] \subseteq SourcesOf(defined'[u])
  BY <1>2, <1>4
<1>9. c \in alone => Tells(r, a)
  <2> SUFFICES ASSUME c \in alone, NEW q, q.req = r.req, q.conn = r.conn, q.before = r.before,
                      q.ok = a \/ (r.conn /\ q.failed = TRUE /\ q.ok = "raised")
               PROVE  Told(q, list', defined')
    BY DEF Tells, EndTells
  <2>1. a = "OK" /\ (r.conn => defined'[u] = Undefined) /\ u \notin list'
    BY <1>1, <1>2, <1>3, <1>4 DEF Story
  <2>2. r.req.op = "Delete"
    BY <1>2 DEF DomCallSound
  <2>3. CASE q.ok = a
    BY <1>1, <2>1, <2>2, <2>3 DEF Told
  <2>4. CASE r.conn /\ q.failed = TRUE /\ q.ok = "raised"
    <3>1. defined'[u] = Goal(q)
      BY <2>1, <2>2, <2>4 DEF Goal
    <3>2. u \in list' <=> q.req.op # "Delete"
      BY <2>1, <2>2
    <3>3. QED
      BY <1>1, <2>4, <3>1, <3>2 DEF Told, Undone
  <2>5. QED
    BY <2>3, <2>4
<1>10. /\ list' \in SUBSET Uuids /\ dirty' \in SUBSET Uuids /\ stale' \in SUBSET Uuids
       /\ dirty \subseteq dirty' /\ stale \subseteq stale'
       /\ defined' \in [Uuids -> MaybeDocument] /\ kept' \in [Uuids -> SUBSET Sources]
  BY <1>2, <1>4
<1>11. QED
  BY <1>1, <1>2, <1>3, <1>4, <1>5, <1>6, <1>7, <1>8, <1>9, <1>10, AnswerStep, ZenonT(60)

LEMMA ReadDomainKeeps ==
    ASSUME DomInv, NEW c \in Callers, ReadDomain(c)
    PROVE  DomInv'
<1>1. PICK r, u, d : r = call[c] /\ u = r.req.uuid /\ d = XMLDesc(u)
  OBVIOUS
<1>2. /\ r \in DomCalls /\ DomCallSound(r) /\ RequestSound(r.req) /\ u \in Uuids
      /\ defined \in [Uuids -> MaybeDocument] /\ live \in [Uuids -> MaybeDocument]
      /\ kept \in [Uuids -> SUBSET Sources]
      /\ list \in SUBSET Uuids /\ dirty \in SUBSET Uuids /\ stale \in SUBSET Uuids
      /\ r.pc = "read" /\ ~DomAt(c, "idle") /\ Uuid(c) = u /\ c \in Under(u)
      /\ u \notin dirty => Way(r, list, defined)
      /\ u \notin dirty \cup stale => kept[u] \subseteq SourcesOf(defined[u])
      /\ c \in alone => Story(r, list, defined, live)
      /\ call \in [Callers -> DomCalls] /\ r.req.op \in Modifications /\ r.conn /\ r.ok = "none"
  BY <1>1, CallIs DEF ReadDomain, DomAt, Uuid, DomCallSound
<1>3. /\ list' = list /\ live' = live /\ calls' = calls /\ alone' = alone
      /\ dirty' = dirty /\ kept' = kept /\ defined' = defined
      /\ stale' = IF live[u] \in {Undefined, defined[u]} THEN stale ELSE stale \cup {u}
      /\ stale' \in SUBSET Uuids /\ stale \subseteq stale'
  BY <1>2 DEF ReadDomain, libvirt
<1>4. CASE d = Undefined
  <2>1. Answer(c, "raised")
    BY <1>1, <1>2, <1>4 DEF ReadDomain
  <2>2. "raised" \in Answers \ {"none", "OK"}
    BY DEF Answers
  <2>3. UNCHANGED <<list, libvirt, calls, alone, kept, dirty>>
    BY <1>3 DEF libvirt
  <2>4. r = call[c] /\ r.pc \in {"get", "exists", "define", "undefine", "read", "redefine"}
    BY <1>1, <1>2
  <2>5. QED
    BY <1>3, <2>1, <2>2, <2>3, <2>4, RefuseStep
<1>5. CASE d # Undefined
  <2>1. call' = [call EXCEPT ![c].pc = "redefine", ![c].read = d, ![c].doc = Modified(d, r.req)]
    BY <1>1, <1>2, <1>5 DEF ReadDomain
  <2>2. /\ d \in Document /\ d \in Docs(u) /\ Disked(d) \in Nat
        /\ Len(r.req.items) \in Nat
    BY <1>1, <1>2, <1>5, DocumentIs, RequestIs DEF XMLDesc, Docs, MaybeDocument
  <2>3. r.req.op = "ADD" => Disked(d) + Len(r.req.items) <= MaxDisks
    <3> SUFFICES ASSUME r.req.op = "ADD" PROVE Disked(d) + Len(r.req.items) <= MaxDisks
      OBVIOUS
    <3>1. SizeOf(u)
      BY <1>2 DEF DomInv, SizeInv
    <3>2. Disked(d) + Cardinality(Pending(u)) <= MaxDisks
      BY <1>5, <2>2, <3>1 DEF SizeOf
    <3>3. IsFiniteSet(Pending(u)) /\ Cardinality(Pending(u)) \in Nat
      BY <1>2, PendingIs
    <3>4. ItemSources(r.req) \in SUBSET Sources /\ Cardinality(ItemSources(r.req)) = Len(r.req.items)
      BY <1>2, RequestIs
    <3>5. Adding(r)
      BY <1>2 DEF Adding
    <3>6. ItemSources(r.req) \in SUBSET Pending(u)
      BY <1>1, <1>2, <3>4, <3>5 DEF Pending
    <3>7. Len(r.req.items) <= Cardinality(Pending(u))
      BY <3>3, <3>4, <3>6, FS_Subset
    <3>8. QED
      BY <2>2, <3>2, <3>3, <3>7, DomainConstants
  <2>4. PICK e : e = Modified(d, r.req)
    OBVIOUS
  <2>5. /\ e \in Document /\ Disked(e) \in Nat
        /\ Disked(e) <= Disked(d) + (IF r.req.op = "ADD" THEN Len(r.req.items) ELSE 0)
    BY <1>2, <2>2, <2>3, <2>4, ModifiedIs, DocumentIs
  <2> DEFINE q == [r EXCEPT !.pc = "redefine", !.read = d, !.doc = e]
  <2>6. call' = [call EXCEPT ![c] = q]
    BY <1>1, <1>2, <2>1, <2>4
  <2>7. /\ q \in DomCalls /\ q.pc = "redefine" /\ q.req = r.req /\ q.read = d /\ q.doc = e
        /\ q.ok = r.ok /\ q.conn = r.conn /\ q.before = r.before
    <3>1. "redefine" \in Pc
      BY DEF Pc
    <3>2. QED
      BY <1>2, <2>2, <2>5, <3>1 DEF DomCalls
  <2> HIDE DEF q
  <2>8. DomCallSound(q)
    BY <1>2, <2>3, <2>4, <2>7 DEF DomCallSound, Fits
  <2>9. SizeInv'
    <3> DEFINE k == IF Adding(r) /\ ~Adding(q) THEN Len(r.req.items) ELSE 0
    <3>1. ~Adding(q) /\ (Adding(r) <=> r.req.op = "ADD")
      BY <1>2, <2>7 DEF Adding, Modifications
    <3>2. k \in Nat /\ Disked(e) <= Disked(d) + k
      BY <2>2, <2>5, <3>1
    <3>3. k = IF Adding(r) /\ ~Adding(q) THEN Len(r.req.items) ELSE 0
      OBVIOUS
    <3>4. DocsMove(u, q)
      <4>1. u = call[c].req.uuid /\ (q.pc # "idle" => q.req.uuid = u)
        BY <1>1, <2>7
      <4>2. QED
        BY <1>2, <1>3, <2>6, <4>1, DocsStep
    <3>5. defined'[u] \in Docs(u)
      BY <1>3 DEF Docs
    <3> HIDE DEF k
    <3>6. Grow(u, k)
      <4>1. ASSUME NEW f \in Docs(u)', f # Undefined
            PROVE  \E g \in Docs(u) : g # Undefined /\ Disked(g) \in Nat /\ Disked(f) \in Nat
                                      /\ Disked(f) <= Disked(g) + k
        <5>1. CASE f \in Docs(u)
          <6>1. Disked(f) \in Nat
            BY <1>1, <4>1, <5>1, DocsAre
          <6>2. Disked(f) <= Disked(f) + k
            BY <3>2, <6>1
          <6>3. QED
            BY <4>1, <5>1, <6>1, <6>2
        <5>2. CASE f = e
          BY <1>5, <2>2, <2>5, <3>2, <5>2
        <5>3. QED
          BY <2>7, <3>4, <3>5, <4>1, <5>1, <5>2 DEF DocsMove
      <4>2. QED
        BY <4>1 DEF Grow
    <3>7. \A v \in Uuids : v # u => defined'[v] = defined[v]
      BY <1>3
    <3>8. q.pc # "idle" => q.req = r.req
      BY <2>7
    <3>9. Adding(q) => Adding(r) /\ q.pc # "idle"
      BY <3>1
    <3>10. QED
      BY <1>1, <1>2, <1>3, <2>6, <3>2, <3>3, <3>6, <3>7, <3>8, <3>9, SizeStep
  <2>10. OnlyOf(u)
    BY <1>3 DEF OnlyOf
  <2>11. u \notin dirty' => IF q.pc = "idle" THEN u \in list' <=> defined'[u] # Undefined
                            ELSE Way(q, list', defined')
    BY <1>1, <1>2, <1>3, <2>7 DEF Way
  <2>12. u \notin dirty' \cup stale' => /\ kept'[u] \subseteq SourcesOf(defined'[u])
                                        /\ q.pc = "redefine" => q.read = defined'[u]
    BY <1>1, <1>2, <1>3, <2>7 DEF XMLDesc
  <2>13. c \in alone => Story(q, list', defined', live')
    BY <1>1, <1>2, <1>3, <2>7 DEF Story, XMLDesc
  <2>14. u = call[c].req.uuid /\ (q.pc # "idle" => q.req.uuid = u)
    BY <1>1, <2>7
  <2>15. list' \in SUBSET Uuids /\ dirty' \in SUBSET Uuids /\ dirty \subseteq dirty'
         /\ defined' \in [Uuids -> MaybeDocument] /\ kept' \in [Uuids -> SUBSET Sources]
    BY <1>2, <1>3
  <2>16. QED
    BY <1>2, <1>3, <2>6, <2>7, <2>8, <2>9, <2>10, <2>11, <2>12, <2>13, <2>14, <2>15, DomStep,
       ZenonT(60)
<1>6. QED
  BY <1>4, <1>5

\* The document that was read and modified is defined: what was given to the
\* domain is kept, and it is what the request asked for.
LEMMA RedefineIs ==
    ASSUME DomInv, NEW c \in Callers, NEW r, r = call[c], r.pc = "redefine",
           NEW u, u = r.req.uuid, ~Clash(r.read, r.req), RedefineXML(u, r),
           list' = list, stale' = stale, dirty' = dirty
    PROVE  /\ defined' \in [Uuids -> MaybeDocument] /\ kept' \in [Uuids -> SUBSET Sources]
           /\ \A v \in Uuids : v # u => defined'[v] = defined[v] /\ kept'[v] = kept[v]
           /\ defined'[u] = r.doc /\ defined'[u] \in Docs(u) \cup {Undefined}
           /\ u \notin dirty' => (u \in list' <=> defined'[u] # Undefined)
           /\ u \notin dirty' \cup stale' => kept'[u] \subseteq SourcesOf(defined'[u])
           /\ r.conn /\ r.req.op \in Modifications
           /\ c \in alone => /\ u \in list' /\ (u \in list' <=> r.before.listed)
                             /\ \A q : q.req = r.req /\ q.before = r.before =>
                                   Asked(q, r.doc) /\ Goal(q) = r.doc
<1>1. /\ DomCallSound(r) /\ RequestSound(r.req) /\ u \in Uuids /\ c \in Under(u)
      /\ defined \in [Uuids -> MaybeDocument] /\ kept \in [Uuids -> SUBSET Sources]
      /\ u \notin dirty => Way(r, list, defined)
      /\ u \notin dirty \cup stale => kept[u] \subseteq SourcesOf(defined[u]) /\ r.read = defined[u]
      /\ c \in alone => Story(r, list, defined, live)
      /\ r.read \in Document /\ r.doc \in Document
  BY CallIs DEF DomAt
<1>2. /\ r.req.op \in Modifications /\ r.conn
      /\ r.doc = Modified(r.read, r.req) /\ Fits(r.read, r.req)
  BY <1>1 DEF DomCallSound
<1> DEFINE had == SourcesOf(r.read)
           has == SourcesOf(r.doc)
<1>3. has \in SUBSET Sources /\ r.doc # Undefined
  BY <1>1, SourcesAre, DocumentIs
<1>4. /\ defined'[u] = r.doc /\ kept'[u] = (kept[u] \ Taken(r)) \cup (has \ had)
      /\ defined' \in [Uuids -> MaybeDocument] /\ kept' \in [Uuids -> SUBSET Sources]
      /\ \A v \in Uuids : v # u => defined'[v] = defined[v] /\ kept'[v] = kept[v]
  BY <1>1, <1>3 DEF RedefineXML, MaybeDocument
<1>5. Taken(r) = TakenFrom(r.read, r.req)
  BY DEF Taken, TakenFrom, Hit
<1>6. /\ had \ TakenFrom(r.read, r.req) \subseteq has
      /\ \A q : q.req = r.req /\ q.before.seen = r.read => Asked(q, r.doc)
  <2>1. PICK d, e, p : d = r.read /\ e = r.doc /\ p = r.req
    OBVIOUS
  <2>2. /\ d \in Document /\ RequestSound(p) /\ p.op \in Modifications
        /\ e = Modified(d, p) /\ ~Clash(d, p)
        /\ p.op = "ADD" => Disked(d) + Len(p.items) <= MaxDisks
    BY <1>1, <1>2, <2>1 DEF Fits
  <2>3. QED
    BY <2>1, <2>2, ModifiedIs
<1>7. defined'[u] \in Docs(u) \cup {Undefined}
  BY <1>1, <1>4 DEF Docs
<1>8. u \notin dirty' => (u \in list' <=> defined'[u] # Undefined)
  BY <1>1, <1>2, <1>3, <1>4 DEF Way
<1>9. u \notin dirty' \cup stale' => kept'[u] \subseteq SourcesOf(defined'[u])
  BY <1>1, <1>4, <1>5, <1>6
<1>10. c \in alone => /\ u \in list' /\ (u \in list' <=> r.before.listed)
                      /\ r.before.seen = r.read
  BY <1>1 DEF Story
<1>11. ASSUME NEW q, q.req = r.req, q.before = r.before, c \in alone
       PROVE  Asked(q, r.doc) /\ Goal(q) = r.doc
  <2>1. q.before.seen = r.read
    BY <1>10, <1>11
  <2>2. r.req.op # "Create" /\ r.req.op # "Delete"
    BY <1>2 DEF Modifications
  <2>3. Goal(q) = r.doc
    BY <1>2, <1>11, <2>1, <2>2 DEF Goal
  <2>4. QED
    BY <1>6, <1>11, <2>1, <2>3
<1> HIDE DEF had, has
<1>12. QED
  BY <1>2, <1>4, <1>7, <1>8, <1>9, <1>10, <1>11, ZenonT(60)

LEMMA RedefineKeeps ==
    ASSUME DomInv, NEW c \in Callers, Redefine(c)
    PROVE  DomInv'
<1>1. PICK r, u : r = call[c] /\ u = r.req.uuid
  OBVIOUS
<1>2. /\ r \in DomCalls /\ DomCallSound(r) /\ RequestSound(r.req) /\ u \in Uuids
      /\ defined \in [Uuids -> MaybeDocument] /\ kept \in [Uuids -> SUBSET Sources]
      /\ list \in SUBSET Uuids /\ dirty \in SUBSET Uuids /\ stale \in SUBSET Uuids
      /\ r.pc = "redefine" /\ ~DomAt(c, "idle") /\ Uuid(c) = u /\ c \in Under(u)
      /\ u \notin dirty => Way(r, list, defined)
      /\ u \notin dirty \cup stale => kept[u] \subseteq SourcesOf(defined[u]) /\ r.read = defined[u]
      /\ c \in alone => Story(r, list, defined, live)
      /\ r.read \in Document /\ r.doc \in Document
  BY <1>1, CallIs DEF Redefine, DomAt, Uuid
<1>7. /\ r.req.op \in Modifications /\ r.conn
      /\ r.doc = Modified(r.read, r.req) /\ Fits(r.read, r.req)
  BY <1>2 DEF DomCallSound
<1>3. /\ list' = list /\ live' = live /\ calls' = calls /\ alone' = alone
      /\ dirty' = dirty /\ stale' = stale
  BY DEF Redefine
<1>4. CASE Clash(r.read, r.req)
  <2>1. Answer(c, "raised") /\ defined' = defined /\ kept' = kept
    BY <1>1, <1>4 DEF Redefine
  <2>2. "raised" \in Answers \ {"none", "OK"}
    BY DEF Answers
  <2>3. /\ UNCHANGED <<list, libvirt, calls, alone, kept, dirty>>
        /\ stale' \in SUBSET Uuids /\ stale \subseteq stale'
    BY <1>2, <1>3, <2>1 DEF libvirt
  <2>4. r = call[c] /\ r.pc \in {"get", "exists", "define", "undefine", "read", "redefine"}
    BY <1>1, <1>2
  <2>5. QED
    BY <2>1, <2>2, <2>3, <2>4, RefuseStep
<1>5. CASE ~Clash(r.read, r.req)
  <2>1. RedefineXML(u, r) /\ Answer(c, "OK") /\ "OK" \in Answers
    BY <1>1, <1>2, <1>5 DEF Redefine, Answers
  <2>2. /\ defined' \in [Uuids -> MaybeDocument] /\ kept' \in [Uuids -> SUBSET Sources]
        /\ \A v \in Uuids : v # u => defined'[v] = defined[v] /\ kept'[v] = kept[v]
        /\ defined'[u] = r.doc /\ defined'[u] \in Docs(u) \cup {Undefined}
        /\ u \notin dirty' => (u \in list' <=> defined'[u] # Undefined)
        /\ u \notin dirty' \cup stale' => kept'[u] \subseteq SourcesOf(defined'[u])
        /\ c \in alone => /\ u \in list' /\ (u \in list' <=> r.before.listed)
                          /\ \A q : q.req = r.req /\ q.before = r.before =>
                                Asked(q, r.doc) /\ Goal(q) = r.doc
    <3>1. r.pc = "redefine" /\ list' = list /\ stale' = stale /\ dirty' = dirty
      BY <1>2, <1>3
    <3>2. QED
      BY <1>1, <1>5, <2>1, <3>1, RedefineIs
  <2>3. OnlyOf(u)
    BY <1>3, <2>2 DEF OnlyOf
  <2>4. c \in alone => Tells(r, "OK")
    <3> SUFFICES ASSUME c \in alone, NEW q, q.req = r.req, q.conn = r.conn, q.before = r.before,
                        q.ok = "OK" \/ (r.conn /\ q.failed = TRUE /\ q.ok = "raised")
                 PROVE  Told(q, list', defined')
      BY DEF Tells, EndTells
    <3>1. /\ u \in list' /\ (u \in list' <=> q.before.listed)
          /\ Asked(q, defined'[u]) /\ defined'[u] = Goal(q)
      BY <2>2
    <3>2. r.req.op # "Create" /\ r.req.op # "Delete"
      BY <1>7 DEF Modifications
    <3>3. CASE q.ok = "OK"
      BY <1>1, <3>1, <3>2, <3>3 DEF Told
    <3>4. CASE r.conn /\ q.failed = TRUE /\ q.ok = "raised"
      BY <1>1, <3>1, <3>4 DEF Told, Undone
    <3>5. QED
      BY <3>3, <3>4
  <2>5. list' \in SUBSET Uuids /\ dirty' \in SUBSET Uuids /\ stale' \in SUBSET Uuids
        /\ dirty \subseteq dirty' /\ stale \subseteq stale'
    BY <1>2, <1>3
  <2>6. QED
    BY <1>1, <1>2, <1>3, <2>1, <2>2, <2>3, <2>4, <2>5, AnswerStep, ZenonT(60)
<1>6. QED
  BY <1>4, <1>5

\* A define or undefine that is done and whose reply is lost.
LEMMA LostStep ==
    ASSUME DomInv, NEW c \in Callers, NEW r, r = call[c], r.pc \in {"define", "undefine"},
           NEW u, u = r.req.uuid, NEW a \in {"raised", "LIBVIRT_ERROR"},
           EndAs(c, Failed(c), a),
           list' = list, live' = live, calls' = calls, alone' = alone, stale' = stale,
           dirty' = dirty \cup {u},
           defined' \in [Uuids -> MaybeDocument], kept' \in [Uuids -> SUBSET Sources],
           OnlyOf(u), defined'[u] = Goal(r), defined'[u] = Undefined \/ SizeInv'
    PROVE  DomInv'
<1>1. /\ u \in Uuids /\ ~DomAt(c, "idle") /\ r.conn /\ u \in dirty'
      /\ list \in SUBSET Uuids /\ dirty \in SUBSET Uuids /\ stale \in SUBSET Uuids
      /\ c \in alone => Story(r, list, defined, live)
      /\ r.req.op = "Create" \/ r.req.op = "Delete"
  BY CallIs DEF DomAt, DomCallSound
<1>2. Failed(c).failed = TRUE
  BY CallIs DEF Failed, DomCalls
<1>3. c \in alone => EndTells(r, Failed(c).failed, a)
  <2> SUFFICES ASSUME c \in alone, NEW q, q.req = r.req, q.conn = r.conn, q.before = r.before,
                      q.failed = TRUE, q.ok = a
               PROVE  Told(q, list', defined')
    BY <1>2 DEF EndTells
  <2>1. defined'[u] = Goal(q)
    BY DEF Goal
  <2>2. u \in list' <=> q.before.listed
    BY <1>1 DEF Story
  <2>3. QED
    BY <1>1, <2>1, <2>2 DEF Told, Undone
<1>4. a \in Answers /\ Failed(c) \in {r, Failed(c)}
  BY DEF Answers
<1>5. /\ list' \in SUBSET Uuids /\ dirty' \in SUBSET Uuids /\ stale' \in SUBSET Uuids
      /\ dirty \subseteq dirty' /\ stale \subseteq stale'
  BY <1>1
<1>6. QED
  BY <1>1, <1>3, <1>4, <1>5, EndStep, ZenonT(60)

LEMMA LibvirtFailsKeeps ==
    ASSUME DomInv, NEW c \in Callers, LibvirtFails(c)
    PROVE  DomInv'
<1>1. PICK r, u, e : r = call[c] /\ u = r.req.uuid /\ e = Failed(c)
  OBVIOUS
<1>2. PICK a \in {"raised", "LIBVIRT_ERROR"} : EndAs(c, e, a)
  BY <1>1 DEF LibvirtFails
<1>3. a \in Answers \ {"none", "OK"} /\ e \in {r, Failed(c)}
  BY <1>1 DEF Answers
<1>4. /\ r \in DomCalls /\ DomCallSound(r) /\ RequestSound(r.req) /\ u \in Uuids /\ Uuid(c) = u
      /\ list \in SUBSET Uuids /\ dirty \in SUBSET Uuids /\ stale \in SUBSET Uuids
      /\ defined \in [Uuids -> MaybeDocument] /\ kept \in [Uuids -> SUBSET Sources]
      /\ r.pc \in {"define", "undefine", "read", "redefine"} /\ ~DomAt(c, "idle")
      /\ list' = list /\ live' = live /\ calls' = calls /\ alone' = alone /\ stale' = stale
      /\ ReplyLost(c) \/ UNCHANGED <<defined, kept, dirty>>
  BY <1>1, CallIs DEF LibvirtFails, DomAt, Uuid
<1>5. CASE UNCHANGED <<defined, kept, dirty>>
  <2>1. /\ UNCHANGED <<list, libvirt, calls, alone, kept, dirty>>
        /\ stale' \in SUBSET Uuids /\ stale \subseteq stale'
    BY <1>4, <1>5 DEF libvirt
  <2>2. r.pc \in {"get", "exists", "define", "undefine", "read", "redefine"}
    BY <1>4
  <2>3. QED
    BY <1>1, <1>2, <1>3, <2>1, <2>2, RefuseEnd
<1>6. CASE DomAt(c, "define") /\ DefineXML(u, Created(r.req)) /\ dirty' = dirty \cup {u}
  <2>1. PICK d : d = Created(r.req)
    OBVIOUS
  <2>2. d \in MaybeDocument /\ SourcesOf(d) \in SUBSET Sources
    BY <1>4, <2>1, CreatedIs, SourcesAre DEF MaybeDocument
  <2>3. r.pc = "define" /\ r.req.op = "Create"
    BY <1>1, <1>4, <1>6 DEF DomAt, DomCallSound
  <2>4. PICK q \in DomCalls : call' = [call EXCEPT ![c] = q] /\ q.pc = "idle" /\ ~Adding(q)
    BY <1>1, <1>2, <1>3, EndIs
  <2>5. SizeInv'
    BY <1>1, <1>4, <1>6, <2>3, <2>4, SizeDefine
  <2>6. defined' = [defined EXCEPT ![u] = d] /\ kept' = [kept EXCEPT ![u] = SourcesOf(d)]
    BY <1>6, <2>1 DEF DefineXML
  <2>7. QED
    <3>1. /\ list' = list /\ live' = live /\ calls' = calls /\ alone' = alone /\ stale' = stale
          /\ dirty' = dirty \cup {u} /\ EndAs(c, Failed(c), a)
      BY <1>1, <1>2, <1>4, <1>6
    <3>2. r.pc \in {"define", "undefine"} /\ SizeInv'
      BY <2>3, <2>5
    <3>3. defined'[u] = Goal(r)
      BY <1>4, <2>1, <2>3, <2>6 DEF Goal
    <3>4. /\ defined' \in [Uuids -> MaybeDocument] /\ kept' \in [Uuids -> SUBSET Sources]
          /\ OnlyOf(u)
      BY <1>4, <2>2, <2>6 DEF OnlyOf
    <3>5. QED
      BY <1>1, <1>2, <3>1, <3>2, <3>3, <3>4, LostStep
<1>7. CASE DomAt(c, "undefine") /\ UndefineXML(u) /\ dirty' = dirty \cup {u}
  <2>1. r.pc = "undefine" /\ r.req.op = "Delete"
    BY <1>1, <1>4, <1>7 DEF DomAt, DomCallSound
  <2>2. defined' = [defined EXCEPT ![u] = Undefined] /\ kept' = [kept EXCEPT ![u] = {}]
    BY <1>7 DEF UndefineXML
  <2>3. Undefined \in MaybeDocument /\ {} \in SUBSET Sources
    BY DEF MaybeDocument
  <2>4. QED
    <3>1. /\ list' = list /\ live' = live /\ calls' = calls /\ alone' = alone /\ stale' = stale
          /\ dirty' = dirty \cup {u} /\ EndAs(c, Failed(c), a)
      BY <1>1, <1>2, <1>4, <1>7
    <3>2. r.pc \in {"define", "undefine"} /\ defined'[u] = Undefined /\ defined'[u] = Goal(r)
      BY <1>4, <2>1, <2>2 DEF Goal
    <3>3. /\ defined' \in [Uuids -> MaybeDocument] /\ kept' \in [Uuids -> SUBSET Sources]
          /\ OnlyOf(u)
      BY <1>4, <2>2, <2>3 DEF OnlyOf
    <3>4. QED
      BY <1>1, <1>2, <3>1, <3>2, <3>3, LostStep
<1>8. CASE DomAt(c, "redefine") /\ ~Clash(r.read, r.req) /\ RedefineXML(u, r) /\ UNCHANGED dirty
  <2>1. r.pc = "redefine"
    BY <1>1, <1>8 DEF DomAt
  <2>2. /\ defined' \in [Uuids -> MaybeDocument] /\ kept' \in [Uuids -> SUBSET Sources]
        /\ \A v \in Uuids : v # u => defined'[v] = defined[v] /\ kept'[v] = kept[v]
        /\ defined'[u] = r.doc /\ defined'[u] \in Docs(u) \cup {Undefined}
        /\ u \notin dirty' => (u \in list' <=> defined'[u] # Undefined)
        /\ u \notin dirty' \cup stale' => kept'[u] \subseteq SourcesOf(defined'[u])
        /\ r.conn
        /\ c \in alone => /\ u \in list' /\ (u \in list' <=> r.before.listed)
                          /\ \A q : q.req = r.req /\ q.before = r.before => Goal(q) = r.doc
    <3>1. list' = list /\ stale' = stale /\ dirty' = dirty
      BY <1>4, <1>8
    <3>2. QED
      BY <1>1, <1>8, <2>1, <3>1, RedefineIs
  <2>3. OnlyOf(u)
    BY <1>4, <1>8, <2>2 DEF OnlyOf
  <2>4. Failed(c).failed = TRUE
    BY CallIs DEF Failed, DomCalls
  <2>5. c \in alone => EndTells(r, e.failed, a)
    <3> SUFFICES ASSUME c \in alone, NEW q, q.req = r.req, q.conn = r.conn, q.before = r.before,
                        q.failed = TRUE, q.ok = a
                 PROVE  Told(q, list', defined')
      BY <1>1, <2>4 DEF EndTells
    <3>1. defined'[u] = Goal(q) /\ (u \in list' <=> q.before.listed)
      BY <2>2
    <3>2. QED
      BY <1>1, <2>2, <3>1 DEF Told, Undone
  <2>6. list' \in SUBSET Uuids /\ dirty' \in SUBSET Uuids /\ stale' \in SUBSET Uuids
        /\ dirty \subseteq dirty' /\ stale \subseteq stale'
    BY <1>4, <1>8
  <2>7. QED
    BY <1>1, <1>2, <1>3, <1>4, <2>2, <2>3, <2>5, <2>6, EndStep, ZenonT(60)
<1>9. QED
  <2>1. CASE ReplyLost(c)
    BY <1>1, <1>4, <1>6, <1>7, <1>8, <2>1 DEF ReplyLost
  <2>2. QED
    BY <1>4, <1>5, <2>1

-----------------------------------------------------------------------------
(* The requests                                                            *)

LEMMA OneItemIs ==
    ASSUME NEW u, NEW s \in OneItem(u)
    PROVE  /\ s \in Seq(Item) /\ Len(s) = 1 /\ DOMAIN s = {1}
           /\ s[1] \in Item /\ s[1].src \in New(u)
<1>1. PICK d \in Devs, t \in New(u) : s = <<[dev |-> d, src |-> t]>>
  BY DEF OneItem
<1>2. t \in Sources
  BY DEF New
<1> DEFINE i == [dev |-> d, src |-> t]
<1>3. i \in Item /\ i.src = t
  BY <1>2 DEF Item
<1> HIDE DEF i
<1>4. <<i>> \in Seq(Item) /\ Len(<<i>>) = 1 /\ DOMAIN <<i>> = {1} /\ <<i>>[1] = i
  BY <1>3
<1>5. QED
  BY <1>1, <1>3, <1>4 DEF i

LEMMA TwoItemsIs ==
    ASSUME NEW u, NEW s \in TwoItems(u)
    PROVE  /\ s \in Seq(Item) /\ Len(s) = 2 /\ DOMAIN s = {1, 2}
           /\ \A i \in {1, 2} : s[i] \in Item /\ s[i].src \in New(u)
           /\ s[1].dev # s[2].dev /\ s[1].src # s[2].src
<1>1. PICK x \in OneItem(u), y \in OneItem(u) : s = x \o y
  BY DEF TwoItems
<1>2. s[1].dev # s[2].dev /\ s[1].src # s[2].src
  BY DEF TwoItems
<1>3. /\ x \in Seq(Item) /\ Len(x) = 1 /\ x[1] \in Item /\ x[1].src \in New(u)
      /\ y \in Seq(Item) /\ Len(y) = 1 /\ y[1] \in Item /\ y[1].src \in New(u)
  BY OneItemIs
<1>4. /\ s \in Seq(Item) /\ Len(s) = 2
      /\ \A i \in 1..2 : s[i] = IF i <= 1 THEN x[i] ELSE y[i - 1]
  BY <1>1, <1>3, ConcatProperties, SMTT(30)
<1>5. s[1] = x[1] /\ s[2] = y[1]
  BY <1>4
<1>6. DOMAIN s = {1, 2}
  BY <1>4, LenProperties
<1>7. QED
  BY <1>2, <1>3, <1>4, <1>5, <1>6

\* The request r asks for sources that no call under way for u asks for.
Fresh(r, u) ==
    \A d \in Under(u) : ItemSources(r) \cap ItemSources(call[d].req) = {}

LEMMA NewIsFresh ==
    ASSUME NEW u, NEW r, \A i \in DOMAIN r.items : r.items[i].src \in New(u)
    PROVE  Fresh(r, u)
<1>1. ASSUME NEW d \in Under(u), NEW s \in ItemSources(r), s \in ItemSources(call[d].req)
      PROVE  FALSE
  <2>1. s \in New(u)
    BY <1>1 DEF ItemSources
  <2>2. s \notin {call[d].req.items[i].src : i \in DOMAIN call[d].req.items}
    <3>1. s \notin UNION {SourcesOf(call[e].doc) \cup AskedBy(e) : e \in Under(u)}
      BY <2>1 DEF New
    <3>2. s \notin AskedBy(d)
      BY <1>1, <3>1
    <3>3. QED
      BY <3>2 DEF AskedBy
  <2>3. QED
    BY <1>1, <2>2 DEF ItemSources
<1>2. QED
  BY <1>1 DEF Fresh

LEMMA NewRequestIs ==
    ASSUME NEW u, NEW s \in {<<>>} \cup OneItem(u) \cup TwoItems(u), NEW r \in Request,
           r.items = s, r.op \in {"MOUNT", "UMOUNT", "UPDATE"} => s \in OneItem(u)
    PROVE  RequestSound(r) /\ Fresh(r, u)
<1>1. MaxDisks \in Nat \ {0} /\ Devs = 1..MaxDisks
  BY DomainConstants
<1>2. CASE s = <<>>
  <2>1. Len(s) = 0 /\ DOMAIN s = {}
    BY <1>2
  <2>2. r.op \in {"MOUNT", "UMOUNT", "UPDATE"} => Len(s) = 1
    BY OneItemIs
  <2>3. RequestSound(r)
    BY <1>1, <2>1, <2>2 DEF RequestSound
  <2>4. Fresh(r, u)
    BY <2>1, NewIsFresh
  <2>5. QED
    BY <2>3, <2>4
<1>3. CASE s \in OneItem(u)
  <2>1. Len(s) = 1 /\ DOMAIN s = {1} /\ s[1].src \in New(u)
    BY <1>3, OneItemIs
  <2>2. RequestSound(r)
    BY <1>1, <2>1 DEF RequestSound
  <2>3. \A i \in DOMAIN r.items : r.items[i].src \in New(u)
    BY <2>1
  <2>4. QED
    BY <2>2, <2>3, NewIsFresh
<1>4. CASE s \in TwoItems(u)
  <2>1. /\ Len(s) = 2 /\ DOMAIN s = {1, 2}
        /\ \A i \in {1, 2} : s[i] \in Item /\ s[i].src \in New(u)
        /\ s[1].dev # s[2].dev /\ s[1].src # s[2].src
    BY <1>4, TwoItemsIs
  <2>2. s[1].dev \in 1..MaxDisks /\ s[2].dev \in 1..MaxDisks
    BY <1>1, <2>1 DEF Item
  <2>3. 2 <= MaxDisks
    BY <1>1, <2>1, <2>2
  <2>4. r.op \in {"MOUNT", "UMOUNT", "UPDATE"} => Len(s) = 1
    BY OneItemIs
  <2>5. RequestSound(r)
    BY <2>1, <2>3, <2>4 DEF RequestSound
  <2>6. \A i \in DOMAIN r.items : r.items[i].src \in New(u)
    BY <2>1
  <2>7. QED
    BY <2>5, <2>6, NewIsFresh
<1>5. QED
  BY <1>2, <1>3, <1>4

\* A request comes: who works on what then.
LEMMA CallMoves ==
    ASSUME DomInv, NEW c \in Callers, NEW r, RequestSound(r), NEW u, u = r.uuid, Call(c, r)
    PROVE  /\ call'[c] \in DomCalls /\ DomCallSound(call'[c])
           /\ call'[c].pc = "get" /\ call'[c].req = r /\ call'[c].doc = Nothing
           /\ DomAt(c, "idle") /\ c \notin Under(u) /\ u \in Uuids
           /\ \A v : Under(v)' = IF v = u THEN Under(v) \cup {c} ELSE Under(v)
           /\ \A v : \A d \in Under(v) :
                 /\ call'[d] \in DomCalls /\ call'[d].pc = call[d].pc /\ call'[d].req = call[d].req
                 /\ call'[d].conn = call[d].conn /\ call'[d].read = call[d].read
                 /\ call'[d].doc = call[d].doc /\ DomCallSound(call'[d])
           /\ call' \in [Callers -> DomCalls] /\ \A d \in Callers : DomCallSound(call'[d])
<1> DEFINE others == {d \in Callers : ~DomAt(d, "idle")}
           b == IF others # {} THEN DomIdle.before
                ELSE [listed |-> u \in list, defined |-> defined[u], seen |-> XMLDesc(u)]
           q == [DomIdle EXCEPT !.pc = "get", !.req = r, !.before = b]
<1>1. /\ u \in Uuids /\ r \in Request /\ call \in [Callers -> DomCalls]
      /\ defined \in [Uuids -> MaybeDocument] /\ live \in [Uuids -> MaybeDocument]
      /\ \A d \in Callers : call[d] \in DomCalls /\ DomCallSound(call[d])
  <2>1. u \in Uuids /\ r \in Request
    BY RequestIs DEF RequestSound
  <2>2. QED
    BY <2>1, CallIs
<1>2. call' = [d \in Callers |->
                 IF d = c THEN q ELSE IF d \notin others THEN DomIdle
                 ELSE [call[d] EXCEPT !.before = DomIdle.before]]
  <2>1. [DomIdle EXCEPT !.pc = "get", !.req = r,
            !.before = IF others # {} THEN @
                       ELSE [listed |-> u \in list, defined |-> defined[u],
                             seen |-> XMLDesc(u)]] = q
    BY IdleCallIs DEF DomIdle
  <2>2. DomAt(c, "idle")
    BY DEF Call
  <2>3. call' = [d \in Callers |->
             CASE d = c -> q
               [] d # c /\ d \notin others -> DomIdle
               [] OTHER -> [call[d] EXCEPT !.before = DomIdle.before]]
    BY <2>1 DEF Call
  <2> HIDE DEF q, others
  <2>4. QED
    BY <2>3
<1>3. b \in [listed : BOOLEAN, defined : MaybeDocument, seen : MaybeDocument]
  <2>1. XMLDesc(u) \in MaybeDocument /\ defined[u] \in MaybeDocument
    BY <1>1 DEF XMLDesc
  <2>2. (u \in list) \in BOOLEAN
    OBVIOUS
  <2>3. QED
    BY <2>1, <2>2, IdleCallIs
<1> HIDE DEF b
<1>4. /\ q \in DomCalls /\ q.pc = "get" /\ q.req = r /\ q.doc = Nothing /\ q.conn = TRUE
      /\ q.ok = "none"
  <2>1. "get" \in Pc
    BY DEF Pc
  <2>2. DomIdle \in DomCalls /\ DomIdle.doc = Nothing /\ DomIdle.conn = TRUE /\ DomIdle.ok = "none"
    BY IdleCallIs
  <2>3. q \in DomCalls
    BY <1>1, <1>3, <2>1, <2>2 DEF DomCalls
  <2>4. q.pc = "get" /\ q.req = r /\ q.doc = DomIdle.doc /\ q.conn = DomIdle.conn /\ q.ok = DomIdle.ok
    BY DEF DomIdle
  <2>5. QED
    BY <2>2, <2>3, <2>4
<1> HIDE DEF q
<1>5. DomCallSound(q)
  BY <1>4 DEF DomCallSound
<1>6. DomAt(c, "idle") /\ c \notin others
  BY DEF Call
<1>7. call'[c] = q
  BY <1>2
<1>8. \A d \in Callers : d # c /\ d \notin others => call'[d] = DomIdle
  BY <1>2
<1>9. ASSUME NEW d \in others
      PROVE  /\ call'[d] \in DomCalls /\ call'[d].pc = call[d].pc /\ call'[d].req = call[d].req
             /\ call'[d].conn = call[d].conn /\ call'[d].read = call[d].read
             /\ call'[d].doc = call[d].doc /\ DomCallSound(call'[d])
  <2>1. d # c /\ d \in Callers /\ call[d] \in DomCalls /\ DomCallSound(call[d])
    BY <1>1, <1>6
  <2>2. call'[d] = [call[d] EXCEPT !.before = DomIdle.before]
    BY <1>2, <2>1
  <2>3. /\ call'[d] \in DomCalls /\ call'[d].pc = call[d].pc /\ call'[d].req = call[d].req
        /\ call'[d].conn = call[d].conn /\ call'[d].read = call[d].read
        /\ call'[d].doc = call[d].doc /\ call'[d].ok = call[d].ok
    BY <2>1, <2>2, IdleCallIs DEF DomCalls
  <2>4. DomCallSound(call'[d])
    BY <2>1, <2>3 DEF DomCallSound
  <2>5. QED
    BY <2>3, <2>4
<1>10. \A v : Under(v) = {d \in others : call[d].req.uuid = v}
  BY DEF Under, Uuid
<1>11. \A v, d : d \in Under(v)' <=> d \in Callers /\ call'[d].pc # "idle" /\ call'[d].req.uuid = v
  BY DEF Under, Uuid, DomAt
<1>12. \A d \in Callers : d \in others <=> call[d].pc # "idle"
  BY DEF DomAt
<1>13. ASSUME NEW v PROVE Under(v)' = IF v = u THEN Under(v) \cup {c} ELSE Under(v)
  <2>1. ASSUME NEW d \in Callers
        PROVE  d \in Under(v)' <=> (d \in Under(v) \/ (d = c /\ v = u))
    <3>1. CASE d = c
      BY <1>4, <1>6, <1>7, <1>10, <1>11, <3>1
    <3>2. CASE d # c /\ d \notin others
      BY <1>8, <1>10, <1>11, <3>2, IdleCallIs
    <3>3. CASE d \in others
      BY <1>6, <1>9, <1>10, <1>11, <1>12, <3>3
    <3>4. QED
      BY <3>1, <3>2, <3>3
  <2>2. Under(v)' \subseteq Callers /\ Under(v) \subseteq Callers
    BY DEF Under
  <2>3. QED
    BY <2>1, <2>2
<1>14. \A d \in Callers : call'[d] \in DomCalls /\ DomCallSound(call'[d])
  BY <1>4, <1>5, <1>7, <1>8, <1>9, IdleCallIs
<1>15. call' \in [Callers -> DomCalls]
  <2>1. DOMAIN call' = Callers /\ call' = [d \in Callers |-> call'[d]]
    BY <1>2
  <2>2. QED
    BY <1>14, <2>1
<1>16. c \notin Under(u)
  BY <1>6, <1>10
<1>17. \A v : \A d \in Under(v) : d \in others
  BY <1>10
<1> HIDE DEF others
<1>18. QED
  BY <1>1, <1>4, <1>5, <1>6, <1>7, <1>9, <1>13, <1>14, <1>15, <1>16, <1>17

\* There is room for what the calls under way ask for, and n disks.
LEMMA RoomIs ==
    ASSUME DomInv, NEW u \in Uuids, NEW n \in Nat, n <= MaxDisks, Room(u, n),
           NEW d \in Docs(u), d # Undefined
    PROVE  Disked(d) + Cardinality(Pending(u)) + n <= MaxDisks
<1> DEFINE asked == UNION {AskedBy(c) : c \in Under(u)}
<1>1. \A c \in Under(u) : c \in Callers /\ call[c].req.uuid = u
  BY DEF Under, Uuid
<1>2. asked = AskedFor(u)
  <2>1. \A c \in Under(u) : AskedBy(c) = ItemSources(call[c].req)
    BY DEF AskedBy, ItemSources
  <2>2. \A c \in Under(u) : ItemSources(call[c].req) \in SUBSET Sources
    BY <1>1, CallIs, RequestIs
  <2>3. QED
    BY <2>1, <2>2 DEF AskedFor
<1>3. /\ \A e \in {defined[u], live[u]} \cup {call[c].doc : c \in Under(u)} :
           e # Undefined => Cardinality(DOMAIN e.disks) + Cardinality(asked) + n <= MaxDisks
  BY DEF Room
<1> HIDE DEF asked
<1>4. \A e \in {defined[u], live[u]} \cup {call[c].doc : c \in Under(u)} :
         e # Undefined => Disked(e) + Cardinality(AskedFor(u)) + n <= MaxDisks
  BY <1>2, <1>3 DEF Disked
<1>5. /\ Cardinality(Pending(u)) \in Nat /\ Cardinality(AskedFor(u)) \in Nat
      /\ Cardinality(Pending(u)) <= Cardinality(AskedFor(u)) /\ MaxDisks \in Nat
  BY PendingIs, DomainConstants
<1>6. CASE d # Nothing
  <2>1. Disked(d) + Cardinality(AskedFor(u)) + n <= MaxDisks
    BY <1>4, <1>6 DEF Docs
  <2>2. Disked(d) \in Nat
    <3>1. defined[u] \in MaybeDocument /\ live[u] \in MaybeDocument
      BY DEF DomInv, DomTyped
    <3>2. \A c \in Under(u) : call[c].doc \in Document
      BY <1>1, CallIs
    <3>3. d \in Document
      BY <1>6, <3>1, <3>2 DEF Docs, MaybeDocument
    <3>4. QED
      BY <3>3, DocumentIs
  <2>3. QED
    BY <1>5, <2>1, <2>2
<1>7. CASE d = Nothing
  <2>1. Disked(d) = 0
    BY <1>7, NothingIs
  <2>2. CASE Under(u) = {}
    <3>1. Pending(u) = {}
      BY <2>2 DEF Pending
    <3>2. Cardinality(Pending(u)) = 0
      BY <3>1, FS_EmptySet
    <3>3. QED
      BY <1>5, <2>1, <3>2
  <2>3. CASE Under(u) # {}
    <3>1. PICK c \in Under(u) : TRUE
      BY <2>3
    <3>2. call[c].doc \in Document
      BY <1>1, CallIs
    <3>3. call[c].doc # Undefined /\ Disked(call[c].doc) \in Nat
      BY <3>2, DocumentIs
    <3>4. Disked(call[c].doc) + Cardinality(AskedFor(u)) + n <= MaxDisks
      BY <1>4, <3>3
    <3>5. QED
      BY <1>5, <2>1, <3>3, <3>4
  <2>4. QED
    BY <2>2, <2>3
<1>8. QED
  BY <1>6, <1>7

LEMMA CallKeeps ==
    ASSUME DomInv, NEW c \in Callers, NEW r, RequestSound(r), NEW u, u = r.uuid, Call(c, r),
           Fresh(r, u), r.op \in {"Create", "ADD"} => Room(u, Len(r.items))
    PROVE  DomInv'
<1>1. /\ call'[c] \in DomCalls /\ DomCallSound(call'[c])
      /\ call'[c].pc = "get" /\ call'[c].req = r /\ call'[c].doc = Nothing
      /\ DomAt(c, "idle") /\ c \notin Under(u) /\ u \in Uuids
      /\ \A v : Under(v)' = IF v = u THEN Under(v) \cup {c} ELSE Under(v)
      /\ call' \in [Callers -> DomCalls] /\ \A d \in Callers : DomCallSound(call'[d])
  BY CallMoves
<1>2. \A v : \A d \in Under(v) :
         /\ call'[d].pc = call[d].pc /\ call'[d].req = call[d].req
         /\ call'[d].conn = call[d].conn /\ call'[d].read = call[d].read
         /\ call'[d].doc = call[d].doc
  BY CallMoves
<1>3. /\ list' = list /\ defined' = defined /\ live' = live /\ kept' = kept /\ stale' = stale
      /\ dirty' = IF Under(u) = {} THEN dirty ELSE dirty \cup {u}
      /\ calls' = calls + 1 /\ calls < MaxCalls
      /\ alone' = IF {d \in Callers : ~DomAt(d, "idle")} = {} THEN {c} ELSE {}
  BY DEF Call, libvirt
<1>4. DomTyped /\ SizeInv /\ ListInv /\ KeptInv
  BY DEF DomInv
<1>5. DomTyped'
  <2>1. calls' \in 0..MaxCalls
    BY <1>3, <1>4, DomainConstants DEF DomTyped
  <2>2. dirty' \in SUBSET Uuids /\ alone' \in SUBSET Callers
    BY <1>1, <1>3, <1>4 DEF DomTyped
  <2>3. QED
    BY <1>1, <1>3, <1>4, <2>1, <2>2 DEF DomTyped
<1>6. ASSUME NEW v \in Uuids, v # u PROVE SizeOf(v)'
  <2>1. Under(v)' = Under(v) /\ SizeOf(v)
    BY <1>1, <1>4, <1>6 DEF SizeInv
  <2>2. AskedFor(v)' = AskedFor(v)
    BY <1>2, <2>1 DEF AskedFor
  <2>3. Pending(v)' = Pending(v)
    BY <1>2, <2>1 DEF Pending, Adding
  <2>4. Docs(v)' = Docs(v)
    <3>1. {call'[d].doc : d \in Under(v)} = {call[d].doc : d \in Under(v)}
      BY <1>2
    <3>2. QED
      BY <1>3, <2>1, <3>1 DEF Docs
  <2>5. \A d, e \in Under(v)' : d # e =>
           ItemSources(call'[d].req) \cap ItemSources(call'[e].req) = {}
    BY <1>2, <2>1 DEF SizeOf
  <2>6. QED
    BY <2>1, <2>2, <2>3, <2>4, <2>5 DEF SizeOf
<1>7. SizeOf(u)'
  <2> DEFINE S == ItemSources(r)
  <2>1. /\ Under(u)' = Under(u) \cup {c} /\ SizeOf(u)
        /\ S \in SUBSET Sources /\ IsFiniteSet(S) /\ Cardinality(S) = Len(r.items)
        /\ Len(r.items) \in Nat /\ Len(r.items) <= MaxDisks
    BY <1>1, <1>4, RequestIs DEF SizeInv
  <2>2. /\ IsFiniteSet(AskedFor(u)) /\ IsFiniteSet(Pending(u))
        /\ Cardinality(Pending(u)) \in Nat /\ MaxDisks \in Nat
    BY <1>1, PendingIs, DomainConstants
  <2>3. Docs(u)' = Docs(u)
    <3>1. {call'[d].doc : d \in Under(u) \cup {c}} = {call[d].doc : d \in Under(u)} \cup {Nothing}
      BY <1>1, <1>2
    <3>2. QED
      BY <1>3, <2>1, <3>1 DEF Docs
  <2>4. AskedFor(u)' = AskedFor(u) \cup S
    BY <1>1, <1>2, <2>1 DEF AskedFor
  <2>5. Pending(u)' = IF Adding(call'[c]) THEN Pending(u) \cup S ELSE Pending(u)
    <3>1. \A d \in Under(u) : Adding(call'[d]) <=> Adding(call[d])
      BY <1>2 DEF Adding
    <3>2. \A d \in Under(u) : ItemSources(call'[d].req) = ItemSources(call[d].req)
      BY <1>2
    <3>3. ItemSources(call'[c].req) = S
      BY <1>1
    <3> HIDE DEF S
    <3>4. QED
      BY <2>1, <3>1, <3>2, <3>3 DEF Pending
  <2>6. Adding(call'[c]) <=> r.op \in {"Create", "ADD"}
    BY <1>1 DEF Adding
  <2> HIDE DEF S
  <2>7. IsFiniteSet(AskedFor(u)')
    <3> DEFINE A == AskedFor(u)
    <3>1. IsFiniteSet(A) /\ AskedFor(u)' = A \cup S
      BY <2>2, <2>4
    <3> HIDE DEF A
    <3>2. IsFiniteSet(A \cup S)
      BY <2>1, <3>1, FS_Union
    <3>3. QED
      BY <3>1, <3>2
  <2>8. ASSUME NEW d \in Docs(u)', d # Undefined
        PROVE  Disked(d) + Cardinality(Pending(u)') <= MaxDisks
    <3>1. CASE r.op \notin {"Create", "ADD"}
      BY <2>1, <2>3, <2>5, <2>6, <2>8, <3>1 DEF SizeOf
    <3>2. CASE r.op \in {"Create", "ADD"}
      <4> DEFINE P == Pending(u)
                 x == Cardinality(P \cup S)
                 n == Len(r.items)
                 y == Disked(d)
      <4>1. y + Cardinality(P) + n <= MaxDisks
        BY <1>1, <2>1, <2>3, <2>8, <3>2, RoomIs
      <4>2. Pending(u)' = P \cup S
        BY <2>5, <2>6, <3>2
      <4>3. y \in Nat
        <5>1. u = call'[c].req.uuid
          BY <1>1
        <5>2. defined[u] \in MaybeDocument /\ live[u] \in MaybeDocument
          BY <1>1, <1>4 DEF DomTyped
        <5>3. \A e \in Under(u) : call[e].doc \in Document
          BY CallIs DEF Under
        <5>4. d \in Document
          BY <2>3, <2>8, <5>2, <5>3, NothingIs DEF Docs, MaybeDocument
        <5>5. QED
          BY <5>4, DocumentIs
      <4> HIDE DEF P, y
      <4>4. x = Cardinality(P) + n - Cardinality(P \cap S)
        BY <2>1, <2>2, FS_Union DEF P
      <4>5. Cardinality(P \cap S) \in Nat /\ Cardinality(P) \in Nat
        BY <2>1, <2>2, FS_Intersection, FS_CardinalityType DEF P
      <4> HIDE DEF x, n
      <4>6. n \in Nat
        BY <2>1 DEF n
      <4>7. y + x <= MaxDisks
        BY <2>2, <4>1, <4>3, <4>4, <4>5, <4>6
      <4>8. QED
        BY <4>2, <4>7 DEF x, y
    <3>3. QED
      BY <3>1, <3>2
  <2>9. \A d, e \in Under(u)' : d # e =>
           ItemSources(call'[d].req) \cap ItemSources(call'[e].req) = {}
    <3>1. \A d \in Under(u) : ItemSources(call'[d].req) = ItemSources(call[d].req)
      BY <1>2
    <3>2. ItemSources(call'[c].req) = S
      BY <1>1 DEF S
    <3>3. \A d \in Under(u) : S \cap ItemSources(call[d].req) = {}
      BY DEF Fresh, S
    <3>4. \A d, e \in Under(u) : d # e =>
             ItemSources(call[d].req) \cap ItemSources(call[e].req) = {}
      BY <2>1 DEF SizeOf
    <3>5. QED
      BY <2>1, <3>1, <3>2, <3>3, <3>4
  <2>10. QED
    BY <2>7, <2>8, <2>9 DEF SizeOf
<1>8. SizeInv'
  BY <1>6, <1>7 DEF SizeInv
<1>9. ListInv'
  <2> SUFFICES ASSUME NEW v \in Uuids, v \notin dirty'
               PROVE  /\ \A d, e \in Under(v)' : d = e
                      /\ Under(v)' = {} => (v \in list' <=> defined'[v] # Undefined)
                      /\ \A d \in Under(v)' : Way(call'[d], list', defined')
    BY DEF ListInv
  <2>1. /\ v \notin dirty
        /\ \A d, e \in Under(v) : d = e
        /\ Under(v) = {} => (v \in list <=> defined[v] # Undefined)
        /\ \A d \in Under(v) : Way(call[d], list, defined)
    BY <1>3, <1>4 DEF ListInv
  <2>2. CASE v # u
    <3>1. Under(v)' = Under(v)
      BY <1>1, <2>2
    <3>2. ASSUME NEW d \in Under(v) PROVE Way(call'[d], list', defined')
      <4>1. /\ call'[d].pc = call[d].pc /\ call'[d].req = call[d].req
            /\ call'[d].conn = call[d].conn
        BY <1>2
      <4>2. Way(call[d], list, defined)
        BY <2>1
      <4>3. QED
        BY <1>3, <4>1, <4>2 DEF Way
    <3>3. QED
      BY <1>3, <2>1, <3>1, <3>2
  <2>3. CASE v = u
    <3>1. Under(u) = {} /\ Under(u)' = {c}
      BY <1>1, <1>3, <2>3
    <3>2. Way(call'[c], list', defined')
      BY <1>1, <1>3, <2>1, <2>3, <3>1 DEF Way
    <3>3. QED
      BY <2>3, <3>1, <3>2
  <2>4. QED
    BY <2>2, <2>3
<1>10. KeptInv'
  <2> SUFFICES ASSUME NEW v \in Uuids, v \notin dirty' \cup stale'
               PROVE  /\ kept'[v] \subseteq SourcesOf(defined'[v])
                      /\ \A d \in Under(v)' : call'[d].pc = "redefine" =>
                             call'[d].read = defined'[v]
    BY DEF KeptInv, DomAt
  <2>1. /\ kept[v] \subseteq SourcesOf(defined[v])
        /\ \A d \in Under(v) : call[d].pc = "redefine" => call[d].read = defined[v]
    BY <1>3, <1>4 DEF KeptInv, DomAt
  <2>2. \A d \in Under(v)' : d \in Under(v) \/ d = c
    BY <1>1
  <2>3. QED
    BY <1>1, <1>2, <1>3, <2>1, <2>2
<1>11. AloneInv'
  <2> SUFFICES ASSUME NEW d \in alone'
               PROVE  /\ \A e \in Callers : e # d => call'[e].pc = "idle"
                      /\ Story(call'[d], list', defined', live')
    BY DEF AloneInv, DomAt
  <2>1. d = c /\ \A e \in Callers : DomAt(e, "idle")
    BY <1>3
  <2>2. \A e \in Callers : e # c => call'[e] = DomIdle
    BY <2>1 DEF Call
  <2>3. call'[c].before = [listed |-> u \in list, defined |-> defined[u], seen |-> XMLDesc(u)]
    <3>1. {e \in Callers : ~DomAt(e, "idle")} = {}
      BY <2>1
    <3>2. call'[c] = [DomIdle EXCEPT !.pc = "get", !.req = r,
                         !.before = [listed |-> u \in list, defined |-> defined[u],
                                     seen |-> XMLDesc(u)]]
      BY <3>1 DEF Call
    <3>3. QED
      BY <3>2 DEF DomIdle
  <2>4. Story(call'[c], list', defined', live')
    <3>1. PICK q : q = call'[c]
      OBVIOUS
    <3>2. q.before.defined = defined[u] /\ q.before.seen = XMLDesc(u)
      BY <2>3, <3>1
    <3>3. q.before.listed = (u \in list)
      BY <2>3, <3>1
    <3>6. q.pc = "get" /\ q.req.uuid = u
      BY <1>1, <3>1
    <3>4. Story(q, list, defined, live)
      BY <3>2, <3>3, <3>6 DEF Story, XMLDesc
    <3>5. QED
      BY <1>3, <3>1, <3>4
  <2>5. QED
    BY <2>1, <2>2, <2>4, IdleCallIs
<1>12. QED
  BY <1>5, <1>8, <1>9, <1>10, <1>11 DEF DomInv

LEMMA CallCreateKeeps ==
    ASSUME DomInv, NEW c \in Callers, NEW u \in Uuids, CallCreate(c, u)
    PROVE  DomInv'
<1>1. PICK s \in {<<>>} \cup OneItem(u) \cup TwoItems(u) :
         /\ Room(u, Len(s))
         /\ Call(c, [NoRequest EXCEPT !.op = "Create", !.uuid = u, !.items = s])
  BY DEF CallCreate
<1> DEFINE r == [NoRequest EXCEPT !.op = "Create", !.uuid = u, !.items = s]
<1>2. s \in Seq(Item)
  BY OneItemIs, TwoItemsIs, EmptySeq
<1>3. NoRequest \in Request
  BY IdleCallIs
<1>4. r \in Request /\ r.items = s /\ r.uuid = u /\ r.op = "Create"
  BY <1>2, <1>3 DEF Request
<1>5. Call(c, r)
  BY <1>1
<1> HIDE DEF r
<1>6. RequestSound(r) /\ Fresh(r, u)
  BY <1>4, NewRequestIs
<1>7. QED
  BY <1>1, <1>4, <1>5, <1>6, CallKeeps

LEMMA CallDeleteKeeps ==
    ASSUME DomInv, NEW c \in Callers, NEW u \in Uuids, CallDelete(c, u)
    PROVE  DomInv'
<1> DEFINE r == [NoRequest EXCEPT !.uuid = u]
<1>1. Call(c, r)
  BY DEF CallDelete
<1>2. NoRequest \in Request /\ NoRequest.items = <<>> /\ NoRequest.op = "Delete"
  BY IdleCallIs
<1>3. r \in Request /\ r.items = <<>> /\ r.uuid = u /\ r.op = "Delete"
  BY <1>2 DEF Request
<1> HIDE DEF r
<1>4. RequestSound(r) /\ Fresh(r, u)
  <2>1. <<>> \in {<<>>} \cup OneItem(u) \cup TwoItems(u)
    OBVIOUS
  <2>2. QED
    BY <1>3, <2>1, NewRequestIs
<1>5. r.op \notin {"Create", "ADD"}
  BY <1>3
<1>6. QED
  BY <1>1, <1>3, <1>4, <1>5, CallKeeps

LEMMA CallModifyKeeps ==
    ASSUME DomInv, NEW c \in Callers, NEW u \in Uuids, CallModify(c, u)
    PROVE  DomInv'
<1>8. PICK op \in Modifications, ns \in SUBSET Macs, dev \in Devs :
         \E s \in OneItem(u) \cup (IF ns = {} THEN {} ELSE {<<>>}) :
            /\ op \in {"MOUNT", "UMOUNT", "UPDATE"} => ns = {}
            /\ op # "UPDATE" => dev = 1
            /\ op = "ADD" => Room(u, Len(s))
            /\ Call(c, [op |-> op, uuid |-> u, items |-> s, nics |-> ns, to |-> dev])
  BY DEF CallModify
<1>1. PICK s \in OneItem(u) \cup (IF ns = {} THEN {} ELSE {<<>>}) :
         /\ op \in {"MOUNT", "UMOUNT", "UPDATE"} => ns = {}
         /\ op = "ADD" => Room(u, Len(s))
         /\ Call(c, [op |-> op, uuid |-> u, items |-> s, nics |-> ns, to |-> dev])
  BY <1>8
<1> DEFINE r == [op |-> op, uuid |-> u, items |-> s, nics |-> ns, to |-> dev]
<1>2. s \in Seq(Item) /\ s \in {<<>>} \cup OneItem(u) \cup TwoItems(u)
      /\ (op \in {"MOUNT", "UMOUNT", "UPDATE"} => s \in OneItem(u))
  <2>1. s \in {<<>>} \cup OneItem(u)
    OBVIOUS
  <2>2. s \in Seq(Item)
    BY <2>1, OneItemIs, EmptySeq
  <2>3. op \in {"MOUNT", "UMOUNT", "UPDATE"} => s \in OneItem(u)
    BY <1>1
  <2>4. QED
    BY <2>1, <2>2, <2>3
<1>3. r \in Request /\ r.items = s /\ r.uuid = u /\ r.op = op
  BY <1>2 DEF Request, Interfaces
<1>4. Call(c, r) /\ op # "Create"
  BY <1>1 DEF Modifications
<1> HIDE DEF r
<1>5. RequestSound(r) /\ Fresh(r, u)
  BY <1>2, <1>3, NewRequestIs
<1>6. r.op \in {"Create", "ADD"} => Room(u, Len(r.items))
  BY <1>1, <1>3, <1>4
<1>7. QED
  BY <1>3, <1>4, <1>5, <1>6, CallKeeps

-----------------------------------------------------------------------------
(* Jobs and restarts                                                       *)

\* A domain is started or stopped: a document it had, or none.
LEMMA LiveStep ==
    ASSUME DomInv, live' \in [Uuids -> MaybeDocument],
           \A v \in Uuids : live'[v] \in Docs(v) \cup {Undefined},
           alone' = {c \in alone : DomAt(c, "idle")},
           UNCHANGED <<list, defined, call, calls, kept, dirty, stale>>
    PROVE  DomInv'
<1>1. /\ list' = list /\ defined' = defined /\ call' = call /\ calls' = calls
      /\ kept' = kept /\ dirty' = dirty /\ stale' = stale
  OBVIOUS
<1>2. DomTyped /\ SizeInv /\ ListInv /\ KeptInv /\ AloneInv
  BY DEF DomInv
<1>3. DomTyped'
  BY <1>1, <1>2 DEF DomTyped
<1>4. ASSUME NEW v \in Uuids
      PROVE  Under(v)' = Under(v) /\ AskedFor(v)' = AskedFor(v) /\ Pending(v)' = Pending(v)
  <2>1. Under(v)' = Under(v)
    BY <1>1 DEF Under, DomAt, Uuid
  <2>2. QED
    BY <1>1, <2>1 DEF AskedFor, Pending
<1>5. SizeInv'
  <2> SUFFICES ASSUME NEW v \in Uuids PROVE SizeOf(v)'
    BY DEF SizeInv
  <2>1. SizeOf(v)
    BY <1>2 DEF SizeInv
  <2>2. Docs(v)' \subseteq Docs(v) \cup {Undefined}
    <3>1. Docs(v)' = {defined[v], live'[v], Nothing} \cup {call[c].doc : c \in Under(v)}
      BY <1>1, <1>4 DEF Docs
    <3>2. live'[v] \in Docs(v) \cup {Undefined}
      OBVIOUS
    <3>3. \A d \in {defined[v], Nothing} \cup {call[c].doc : c \in Under(v)} : d \in Docs(v)
      BY DEF Docs
    <3>4. QED
      BY <3>1, <3>2, <3>3
  <2>3. QED
    BY <1>1, <1>4, <2>1, <2>2 DEF SizeOf
<1>6. ListInv'
  BY <1>1, <1>2, <1>4 DEF ListInv
<1>7. KeptInv'
  BY <1>1, <1>2, <1>4 DEF KeptInv, DomAt
<1>8. AloneInv'
  <2> SUFFICES ASSUME NEW c \in alone'
               PROVE  /\ \A d \in Callers : d # c => call[d].pc = "idle"
                      /\ Story(call[c], list, defined, live')
    BY <1>1 DEF AloneInv, DomAt
  <2>1. /\ call[c].pc = "idle" /\ Story(call[c], list, defined, live)
        /\ \A d \in Callers : d # c => call[d].pc = "idle"
    BY <1>2 DEF AloneInv, DomAt
  <2>2. QED
    BY <2>1 DEF Story
<1>9. QED
  BY <1>3, <1>5, <1>6, <1>7, <1>8 DEF DomInv

LEMMA DomainStartKeeps ==
    ASSUME DomInv, NEW u \in Uuids, DomainStart(u)
    PROVE  DomInv'
<1>1. defined \in [Uuids -> MaybeDocument] /\ live \in [Uuids -> MaybeDocument]
  BY DEF DomInv, DomTyped
<1>2. /\ live' = [live EXCEPT ![u] = defined[u]]
      /\ alone' = {c \in alone : DomAt(c, "idle")}
      /\ UNCHANGED <<list, defined, call, calls, kept, dirty, stale>>
  BY DEF DomainStart
<1>3. live' \in [Uuids -> MaybeDocument]
  BY <1>1, <1>2
<1>4. \A v \in Uuids : live'[v] \in Docs(v) \cup {Undefined}
  BY <1>1, <1>2 DEF Docs
<1>5. QED
  BY <1>2, <1>3, <1>4, LiveStep

LEMMA DomainStopKeeps ==
    ASSUME DomInv, NEW u \in Uuids, DomainStop(u)
    PROVE  DomInv'
<1>1. live \in [Uuids -> MaybeDocument]
  BY DEF DomInv, DomTyped
<1>2. /\ live' = [live EXCEPT ![u] = Undefined]
      /\ alone' = {c \in alone : DomAt(c, "idle")}
      /\ UNCHANGED <<list, defined, call, calls, kept, dirty, stale>>
  BY DEF DomainStop
<1>3. live' \in [Uuids -> MaybeDocument]
  BY <1>1, <1>2 DEF MaybeDocument
<1>4. \A v \in Uuids : live'[v] \in Docs(v) \cup {Undefined}
  BY <1>1, <1>2 DEF Docs
<1>5. QED
  BY <1>2, <1>3, <1>4, LiveStep

\* When nobody works on any domain, there is room if its documents fit.
LEMMA IdleSize ==
    ASSUME call' = [c \in Callers |-> DomIdle], defined' \in [Uuids -> MaybeDocument],
           live' \in [Uuids -> MaybeDocument]
    PROVE  SizeInv' /\ \A v : Under(v)' = {}
<1>1. \A v : Under(v)' = {}
  BY IdleCallIs DEF Under, DomAt
<1>2. ASSUME NEW v \in Uuids PROVE SizeOf(v)'
  <2>1. AskedFor(v)' = {} /\ Pending(v)' = {} /\ Under(v)' = {}
    BY <1>1 DEF AskedFor, Pending
  <2>2. \A d \in Docs(v)' : d # Undefined => d \in Document
    <3>1. Docs(v)' = {defined'[v], live'[v], Nothing}
      BY <2>1 DEF Docs
    <3>2. defined'[v] \in MaybeDocument /\ live'[v] \in MaybeDocument /\ Nothing \in Document
      BY NothingIs
    <3>3. QED
      BY <3>1, <3>2 DEF MaybeDocument
  <2>3. \A d \in Document : Disked(d) \in Nat /\ Disked(d) <= MaxDisks
    <3>1. IsFiniteSet(Devs) /\ Cardinality(Devs) = MaxDisks
      BY DomainConstants, FS_Interval
    <3>2. ASSUME NEW d \in Document PROVE Disked(d) \in Nat /\ Disked(d) <= MaxDisks
      <4>1. DOMAIN d.disks \in SUBSET Devs /\ Disked(d) \in Nat
        BY DocumentIs
      <4>2. QED
        BY <3>1, <4>1, FS_Subset DEF Disked
    <3>3. QED
      BY <3>2
  <2>4. Cardinality(Pending(v)') = 0 /\ IsFiniteSet(AskedFor(v)')
    BY <2>1, FS_EmptySet
  <2>5. \A d \in Docs(v)' : d # Undefined => Disked(d) + Cardinality(Pending(v)') <= MaxDisks
    BY <2>2, <2>3, <2>4
  <2>6. QED
    BY <2>1, <2>4, <2>5 DEF SizeOf
<1>3. QED
  BY <1>1, <1>2 DEF SizeInv

LEMMA RestartKeeps ==
    ASSUME DomInv, Restart
    PROVE  DomInv'
<1>1. DomTyped /\ KeptInv
  BY DEF DomInv
<1>2. /\ calls' = calls + 1 /\ calls < MaxCalls
      /\ call' = [c \in Callers |-> DomIdle] /\ alone' = {}
      /\ list' = {u \in Uuids : XMLDesc(u) # Undefined}
      /\ dirty' = {u \in Uuids : defined[u] = Undefined /\ live[u] # Undefined}
      /\ stale' = stale \cup dirty
      /\ defined' = defined /\ live' = live /\ kept' = kept
  BY DEF Restart, libvirt
<1>3. DomTyped'
  <2>1. calls' \in 0..MaxCalls
    BY <1>1, <1>2, DomainConstants DEF DomTyped
  <2>2. call' \in [Callers -> DomCalls] /\ \A c \in Callers : DomCallSound(call'[c])
    BY <1>2, IdleCallIs
  <2>3. QED
    BY <1>1, <1>2, <2>1, <2>2 DEF DomTyped
<1>4. SizeInv' /\ \A v : Under(v)' = {}
  BY <1>1, <1>2, IdleSize DEF DomTyped
<1>5. ListInv'
  <2>1. \A u \in Uuids : u \notin dirty' => (u \in list' <=> defined'[u] # Undefined)
    BY <1>2 DEF XMLDesc
  <2>2. QED
    BY <1>4, <2>1 DEF ListInv
<1>6. KeptInv'
  BY <1>1, <1>2, <1>4 DEF KeptInv
<1>7. AloneInv'
  BY <1>2 DEF AloneInv
<1>8. QED
  BY <1>3, <1>4, <1>5, <1>6, <1>7 DEF DomInv

-----------------------------------------------------------------------------
(* The invariant of the specification                                      *)

LEMMA DomInvInit == DomInit => DomInv
<1> SUFFICES ASSUME DomInit PROVE DomInv
  OBVIOUS
<1>1. /\ list = {} /\ defined = [u \in Uuids |-> Undefined]
      /\ live = [u \in Uuids |-> Undefined]
      /\ call = [c \in Callers |-> DomIdle] /\ calls = 0 /\ alone = {}
      /\ kept = [u \in Uuids |-> {}] /\ dirty = {} /\ stale = {}
  BY DEF DomInit
<1>2. DomTyped
  <2>1. call \in [Callers -> DomCalls] /\ \A c \in Callers : DomCallSound(call[c])
    BY <1>1, IdleCallIs
  <2>2. defined \in [Uuids -> MaybeDocument] /\ live \in [Uuids -> MaybeDocument]
    BY <1>1 DEF MaybeDocument
  <2>3. calls \in 0..MaxCalls
    BY <1>1, DomainConstants
  <2>4. QED
    BY <1>1, <2>1, <2>2, <2>3 DEF DomTyped
<1>3. \A v : Under(v) = {}
  BY <1>1, IdleCallIs DEF Under, DomAt
<1>4. SizeInv
  <2> SUFFICES ASSUME NEW v \in Uuids PROVE SizeOf(v)
    BY DEF SizeInv
  <2>1. AskedFor(v) = {} /\ Pending(v) = {} /\ Under(v) = {}
    BY <1>3 DEF AskedFor, Pending
  <2>2. Docs(v) = {Undefined, Nothing}
    BY <1>1, <2>1 DEF Docs
  <2>3. Cardinality(Pending(v)) = 0 /\ IsFiniteSet(AskedFor(v)) /\ Disked(Nothing) = 0
    BY <2>1, FS_EmptySet, NothingIs
  <2>4. \A d \in Docs(v) : d # Undefined => Disked(d) + Cardinality(Pending(v)) <= MaxDisks
    BY <2>2, <2>3, DomainConstants
  <2>5. QED
    BY <2>1, <2>3, <2>4 DEF SizeOf
<1>5. ListInv
  BY <1>1, <1>3 DEF ListInv
<1>6. KeptInv
  BY <1>1, <1>3 DEF KeptInv
<1>7. AloneInv
  BY <1>1 DEF AloneInv
<1>8. QED
  BY <1>2, <1>4, <1>5, <1>6, <1>7 DEF DomInv

LEMMA DomInvNext == DomInv /\ [DomNext]_domVars => DomInv'
<1> SUFFICES ASSUME DomInv, [DomNext]_domVars PROVE DomInv'
  OBVIOUS
<1>1. ASSUME NEW c \in Callers, NEW u \in Uuids,
             CallCreate(c, u) \/ CallDelete(c, u) \/ CallModify(c, u)
      PROVE  DomInv'
  BY <1>1, CallCreateKeeps, CallDeleteKeeps, CallModifyKeeps
<1>2. ASSUME NEW c \in Callers, Handler(c) PROVE DomInv'
  BY <1>2, GetConnKeeps, ExistsKeeps, LibvirtFailsKeeps, DefineKeeps, AppendDomainKeeps,
     UndefineKeeps, PopDomainKeeps, ReadDomainKeeps, RedefineKeeps DEF Handler
<1>3. ASSUME NEW u \in Uuids, DomainStart(u) \/ DomainStop(u) PROVE DomInv'
  BY <1>3, DomainStartKeeps, DomainStopKeeps
<1>4. ASSUME Restart PROVE DomInv'
  BY <1>4, RestartKeeps
<1>5. ASSUME UNCHANGED domVars PROVE DomInv'
  <2>1. /\ list' = list /\ defined' = defined /\ live' = live /\ call' = call /\ calls' = calls
        /\ alone' = alone /\ kept' = kept /\ dirty' = dirty /\ stale' = stale
    BY <1>5 DEF domVars, libvirt, domHistory
  <2>2. \A v : Under(v)' = Under(v)
    BY <2>1 DEF Under, DomAt, Uuid
  <2>3. \A v : Docs(v)' = Docs(v) /\ AskedFor(v)' = AskedFor(v) /\ Pending(v)' = Pending(v)
    BY <2>1, <2>2 DEF Docs, AskedFor, Pending
  <2>4. SizeInv'
    BY <2>1, <2>2, <2>3 DEF DomInv, SizeInv, SizeOf
  <2>5. DomTyped' /\ ListInv' /\ KeptInv' /\ AloneInv'
    BY <2>1, <2>2 DEF DomInv, DomTyped, ListInv, KeptInv, AloneInv, DomAt
  <2>6. QED
    BY <2>4, <2>5 DEF DomInv
<1>6. QED
  BY <1>1, <1>2, <1>3, <1>4, <1>5 DEF DomNext

LEMMA DomainsKeepInv == DomSpec => []DomInv
BY DomInvInit, DomInvNext, PTL DEF DomSpec

\* The documents are well formed, and the list of the agent (CreateDomain,
\* DeleteDomain, initialize_domlist) has exactly the domains that libvirt has
\* defined, whatever fails and restarts: for each domain that nobody works on,
\* unless calls for it overlapped, had no connection or lost the reply to a
\* define or undefine, or it only runs.
THEOREM DomainsAreConsistent == DomSpec => []DomConsistent
<1>1. DomInv => DomConsistent
  <2> SUFFICES ASSUME DomInv PROVE DomConsistent
    OBVIOUS
  <2>1. DomTypeOK
    BY DEF DomInv, DomTyped, DomCalls, MaybeDocument, DomTypeOK
  <2>2. ListIsDefined
    BY DEF DomInv, ListInv, ListIsDefined
  <2>3. QED
    BY <2>1, <2>2 DEF DomConsistent
<1>2. QED
  BY <1>1, DomainsKeepInv, PTL

\* A source that CreateDomain or ModifyDomain gave to a domain is in its
\* definition until a request takes it away, for any number of requests, jobs,
\* failures and restarts, unless calls for that domain overlapped or had no
\* connection, or it was modified while it ran with another document.
THEOREM ChangesAreKept == DomSpec => []ChangeIsKept
<1>1. DomInv => ChangeIsKept
  BY DEF DomInv, KeptInv, ChangeIsKept
<1>2. QED
  BY <1>1, DomainsKeepInv, PTL

\* The answer of a CreateDomain, DeleteDomain or ModifyDomain that nothing has
\* overlapped is true: when it is OK the domain is what was asked for, and when
\* it is an error neither the definition nor the list has changed, unless the
\* connection died: then libvirt may have what was asked, and so may the list if
\* the request raised (put in its finally), but never anything else.
THEOREM DomainAnswersAreTrue == DomSpec => []AnswersAreTrue
<1>1. DomInv => AnswersAreTrue
  <2> SUFFICES ASSUME DomInv, NEW c \in alone
               PROVE  call[c].ok # "none" => Told(call[c], list, defined)
    <3>1. ASSUME \A c \in alone : call[c].ok # "none" => Told(call[c], list, defined), DomInv
          PROVE  AcceptedIsDone
      BY <3>1 DEF AcceptedIsDone, Told, Uuid
    <3>2. ASSUME \A c \in alone : call[c].ok # "none" => Told(call[c], list, defined), DomInv
          PROVE  RefusedIsUndone
      BY <3>2 DEF RefusedIsUndone, Told, Undone, Uuid
    <3>3. QED
      BY <3>1, <3>2 DEF AnswersAreTrue
  <2>1. Story(call[c], list, defined, live) /\ c \in Callers
    BY DEF DomInv, DomTyped, AloneInv
  <2>2. call[c].pc # "idle" => call[c].ok = "none"
    BY <2>1, CallIs DEF DomCallSound
  <2>3. QED
    BY <2>1, <2>2 DEF Story
<1>2. QED
  BY <1>1, DomainsKeepInv, PTL
=============================================================================
