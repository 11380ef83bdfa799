---------------------------- MODULE LibvirtPool ----------------------------
(***************************************************************************)
(* The connections of virt_agent to libvirtd: ConnectionPool, which every  *)
(* handler and job borrows from, and LibvirtEvent, which keeps one of them *)
(* to hear what the domains do.  When a connection closes, libvirt's event *)
(* loop calls back and a job looks whether it was that one; if so it takes *)
(* another from the pool, until it has one.                                *)
(*                                                                         *)
(* get looks at the free list under one hold of its lock and takes from it *)
(* under another, and is a step for each; so is every lock held by the job.*)
(* A borrower gives back what it took, but for CreateDomain with a request *)
(* that is not valid.                                                      *)
(***************************************************************************)
EXTENDS Naturals, Sequences, SequencesExt, FiniteSets

CONSTANTS Users,      \* threads of handlers and jobs that borrow connections
          Enabler,    \* LibvirtEvent.enable, which borrows too
          Conns,      \* connections, numbered; a number that nobody knows any
                      \* more is used again
          MaxSize,    \* maxsize of the pool
          MaxCloses,  \* bound: times that libvirtd stops or drops a connection
          NoConn

ASSUME LibvirtPoolAssumption ==
    /\ Enabler \notin Users
    /\ Conns \subseteq Nat /\ {1, 2} \subseteq Conns /\ NoConn \notin Conns
    /\ MaxSize \in Nat \ {0} /\ MaxCloses \in Nat

VARIABLES
    up,          \* whether libvirtd can be connected to
    alive,       \* connections that work, but for those of LeaveConn
    watched,     \* connections with a close callback
    free,        \* __conn_free_list
    get,         \* what each borrower is doing
    event,       \* LibvirtEvent.__conn
    job,         \* the close job of each connection
    connecting,  \* LIBVIRT_EVENT_CONNECTING
    closes,      \* number of closes so far
    raced,       \* history: enable popped from an empty list
    missed       \* history: a job of the event connection left it to another

conns   == <<up, alive, watched, closes>>
history == <<raced, missed>>
vars    == <<conns, free, get, event, job, connecting, history>>

Borrowers == Users \cup {Enabler}
Conn == Conns \cup {NoConn}
GetPc == {"idle", "size", "open", "pop", "watch", "check", "got", "raised",
          "append"}
JobPc == {"none", "due", "flag", "disable", "loop", "enable", "clear"}

TypeOK ==
    /\ up \in BOOLEAN /\ connecting \in BOOLEAN
    /\ alive \subseteq Conns /\ watched \subseteq Conns
    /\ free \in Seq(Conns)
    /\ get \in [Borrowers -> [pc : GetPc, conn : Conn]]
    /\ event \in Conn
    /\ job \in [Conns -> JobPc]
    /\ closes \in 0..MaxCloses
    /\ raced \in BOOLEAN /\ missed \in BOOLEAN

Idle == [pc |-> "idle", conn |-> NoConn]

\* main enables the events and lists the domains before there are requests: it
\* ends if libvirtd is not there, and leaves one connection in the pool.
First == 1
Second == 2
Init ==
    /\ up = TRUE
    /\ alive = {First, Second} /\ watched = alive
    /\ free = <<Second>>
    /\ get = [g \in Borrowers |-> Idle]
    /\ event = First
    /\ job = [c \in Conns |-> "none"]
    /\ connecting = FALSE
    /\ closes = 0
    /\ raced = FALSE /\ missed = FALSE

Known == ToSet(free) \cup {get[g].conn : g \in Borrowers} \cup {event}
         \cup {c \in Conns : job[c] # "none"}

At(g, pc) == get[g].pc = pc
Becomes(g, pc, c) == get' = [get EXCEPT ![g] = [pc |-> pc, conn |-> c]]
Keeps(g, pc) == Becomes(g, pc, get[g].conn)
JobGoes(c, pc) == job' = [job EXCEPT ![c] = pc]

\* A request that has nothing to give back is over: it got no connection, or
\* IndexError was raised before the try of its handler.
EndsWithout(g, pc) == Becomes(g, IF g \in Users THEN "idle" ELSE pc, NoConn)

\* unregisterCloseCallback and close.  A close job that has not begun would do
\* nothing, LibvirtEvent having another connection.
Close(c) ==
    /\ alive' = alive \ {c} /\ watched' = watched \ {c}
    /\ job' = [job EXCEPT ![c] = IF @ = "due" THEN "none" ELSE @]
    /\ UNCHANGED <<up, closes>>
Leave == UNCHANGED <<conns, job>>

-----------------------------------------------------------------------------
(* ConnectionPool.get                                                      *)

BeginGet(u) ==
    /\ u \in Users
    /\ At(u, "idle")
    /\ Becomes(u, "size", NoConn)
    /\ UNCHANGED <<conns, free, event, job, connecting, history>>

\* __size
LookAtSize(g) ==
    /\ At(g, "size")
    /\ Keeps(g, IF free = <<>> THEN "open" ELSE "pop")
    /\ UNCHANGED <<conns, free, event, job, connecting, history>>

\* libvirt.open: without libvirtd the error is caught, and there is none
OpenConn(g) ==
    /\ At(g, "open")
    /\ \/ /\ ~up
          /\ EndsWithout(g, "got")
          /\ UNCHANGED alive
       \/ /\ up
          /\ \E c \in Conns \ Known :
               /\ \A d \in Conns \ Known : c <= d
               /\ Becomes(g, "watch", c)
               /\ alive' = alive \cup {c}
    /\ UNCHANGED <<up, watched, closes, free, event, job, connecting, history>>

\* setKeepAlive and registerCloseCallback: if they raise, the connection is
\* returned all the same
WatchConn(g) ==
    /\ At(g, "watch")
    /\ Keeps(g, "got")
    /\ watched' = watched \cup ({get[g].conn} \cap alive)
    /\ UNCHANGED <<up, alive, closes, free, event, job, connecting, history>>

\* Mutant: the connection stays in the list.
PeekConn(g) ==
    /\ At(g, "pop")
    /\ IF free = <<>> THEN EndsWithout(g, "raised")
                      ELSE Becomes(g, "check", Last(free))
    /\ UNCHANGED <<conns, free, event, job, connecting, history>>

\* pop, which raises IndexError if the list has become empty
PopConn(g) ==
    /\ At(g, "pop")
    /\ IF free = <<>>
       THEN EndsWithout(g, "raised") /\ UNCHANGED free
       ELSE Becomes(g, "check", Last(free)) /\ free' = Front(free)
    /\ UNCHANGED <<conns, event, job, connecting, history>>

\* __conn_isalive: a dead one is closed, and there is none
CheckConn(g) ==
    /\ At(g, "check")
    /\ IF get[g].conn \in alive
       THEN Keeps(g, "got") /\ Leave
       ELSE EndsWithout(g, "got") /\ Close(get[g].conn)
    /\ UNCHANGED <<free, event, connecting, history>>

-----------------------------------------------------------------------------
(* ConnectionPool.put                                                      *)

\* CreateDomain returns or raises for a request that is not valid, and
\* ModifyDomain raises for one that is no JSON, before the try whose finally puts
\* the connection back: it stays open, with nobody.
LeaveConn(u) ==
    /\ u \in Users
    /\ At(u, "got")
    /\ Becomes(u, "idle", NoConn)
    /\ Close(get[u].conn)
    /\ UNCHANGED <<free, event, connecting, history>>

\* __conn_isalive
BeginPut(u) ==
    /\ u \in Users
    /\ At(u, "got")
    /\ IF get[u].conn \in alive
       THEN Keeps(u, "append") /\ Leave
       ELSE Becomes(u, "idle", NoConn) /\ Close(get[u].conn)
    /\ UNCHANGED <<free, event, connecting, history>>

\* into the list, or closed if that is full
PutConn(u) ==
    /\ At(u, "append")
    /\ IF Len(free) < MaxSize
       THEN free' = Append(free, get[u].conn) /\ Leave
       ELSE Close(get[u].conn) /\ UNCHANGED free
    /\ Becomes(u, "idle", NoConn)
    /\ UNCHANGED <<event, connecting, history>>

-----------------------------------------------------------------------------
(* Closing connections                                                     *)

\* libvirtd stops, and all connections with it, or keepalive gives one up.  The
\* event loop is to call virtAgentLibvirtConnCloseCB, which queues a close job.
Lose(lost) ==
    /\ alive' = alive \ lost
    /\ job' = [c \in Conns |-> IF c \in lost \cap watched THEN "due" ELSE job[c]]
LoseConns ==
    /\ closes < MaxCloses
    /\ closes' = closes + 1
    /\ \/ up /\ up' = FALSE /\ Lose(alive)
       \/ \E c \in alive : Lose({c}) /\ UNCHANGED up
    /\ UNCHANGED <<watched, free, get, event, connecting, history>>

StartLibvirtd ==
    /\ ~up
    /\ up' = TRUE
    /\ UNCHANGED <<alive, watched, closes, free, get, event, job, connecting, history>>

-----------------------------------------------------------------------------
(* LibvirtEventConnCloseHandler                                            *)

\* enable holds __conn_lock all the time that it waits for the pool
Enabling == ~At(Enabler, "idle")

\* check_conn: whether it was the event connection
CheckEventConn(c) ==
    /\ job[c] = "due"
    /\ ~Enabling
    /\ JobGoes(c, IF event = c THEN "flag" ELSE "none")
    /\ UNCHANGED <<conns, free, get, event, connecting, history>>

\* only one job is to connect
SetConnecting(c) ==
    /\ job[c] = "flag"
    /\ connecting' = TRUE
    /\ JobGoes(c, IF connecting THEN "none" ELSE "disable")
    /\ missed' = (missed \/ connecting)
    /\ UNCHANGED <<conns, free, get, event, raced>>

\* Mutant: the job leaves the closed connection to itself.
DisableNothing(c) ==
    /\ job[c] = "disable"
    /\ JobGoes(c, "clear")
    /\ UNCHANGED <<conns, free, get, event, connecting, history>>

\* LibvirtEvent.disable of a connection that is closed
DisableEvents(c) ==
    /\ job[c] = "disable"
    /\ ~Enabling
    /\ event' = NoConn
    /\ alive' = alive \ {event} /\ watched' = watched \ {event}
    /\ JobGoes(c, "loop")
    /\ UNCHANGED <<up, closes, free, get, connecting, history>>

\* while not isEnabled
WhileNotEnabled(c) ==
    /\ job[c] = "loop"
    /\ ~Enabling
    /\ IF event = NoConn
       THEN JobGoes(c, "enable") /\ Becomes(Enabler, "size", NoConn)
       ELSE JobGoes(c, "clear") /\ UNCHANGED get
    /\ UNCHANGED <<conns, free, event, connecting, history>>

\* Mutant: the job tries once.
EnableOnce(c) ==
    /\ job[c] = "enable" /\ At(Enabler, "got")
    /\ event' = get[Enabler].conn
    /\ JobGoes(c, "clear")
    /\ Becomes(Enabler, "idle", NoConn)
    /\ UNCHANGED <<conns, free, connecting, history>>

\* enable once it has the answer of the pool.  If registering the events raises
\* because the connection closed meanwhile, it is kept all the same; IndexError
\* of the pool ends the job, and CONNECTING stays.
EnableEvents(c) ==
    /\ job[c] = "enable"
    /\ \/ /\ At(Enabler, "got")
          /\ event' = get[Enabler].conn
          /\ JobGoes(c, "loop")
          /\ UNCHANGED raced
       \/ /\ At(Enabler, "raised")
          /\ raced' = TRUE
          /\ JobGoes(c, "none")
          /\ UNCHANGED event
    /\ Becomes(Enabler, "idle", NoConn)
    /\ UNCHANGED <<conns, free, connecting, missed>>

ClearConnecting(c) ==
    /\ job[c] = "clear"
    /\ connecting' = FALSE
    /\ JobGoes(c, "none")
    /\ UNCHANGED <<conns, free, get, event, history>>

-----------------------------------------------------------------------------
GetStep(g) == LookAtSize(g) \/ OpenConn(g) \/ WatchConn(g) \/ PopConn(g) \/ CheckConn(g)
UserStep(u) == BeginGet(u) \/ LeaveConn(u) \/ BeginPut(u) \/ PutConn(u)
JobStep(c) == \/ CheckEventConn(c) \/ SetConnecting(c) \/ DisableEvents(c)
              \/ WhileNotEnabled(c) \/ EnableEvents(c) \/ ClearConnecting(c)

Next ==
    \/ \E g \in Borrowers : GetStep(g)
    \/ \E u \in Users : UserStep(u)
    \/ \E c \in Conns : JobStep(c)
    \/ LoseConns \/ StartLibvirtd

Spec == Init /\ [][Next]_vars

\* The event loop and the threads of the job worker run; libvirtd is started
\* again.  Nothing is asked of the other borrowers.
FairSpec ==
    /\ Spec
    /\ WF_vars(StartLibvirtd) /\ WF_vars(GetStep(Enabler))
    /\ \A c \in Conns : WF_vars(JobStep(c))

-----------------------------------------------------------------------------
(* Properties                                                              *)

\* The free list never has more connections than maxsize, however many threads
\* put theirs back at once.
FreeWithinMax == Len(free) <= MaxSize

\* A connection is with one borrower, in the free list once, or with
\* LibvirtEvent: no two threads talk over one and it is not closed under one
\* (the free list is looked at and popped under two holds of the lock).
ConnHasOneHolder ==
    /\ IsInjective(free)
    /\ event \notin ToSet(free)
    /\ \A g \in Borrowers : get[g].conn # NoConn =>
         /\ get[g].conn \notin ToSet(free) \cup {event}
         /\ \A h \in Borrowers \ {g} : get[h].conn # get[g].conn

\* An open connection is always with somebody, LeaveConn apart: no other
\* way through get, put and the close job leaves one behind.
NoConnIsLost ==
    alive \subseteq ToSet(free) \cup {get[g].conn : g \in Borrowers} \cup {event}

\* CONNECTING without a job that connects, after which no close is ever
\* answered, needs an enable that popped from a list another thread emptied.
Stuck == connecting /\ \A c \in Conns : job[c] \in {"none", "due", "flag"}
StuckOnlyByRace == Stuck => raced

\* While LibvirtEvent keeps a closed connection, somebody is still going to
\* notice, unless that was left to a job that had already connected, or the
\* connection closed before it had a callback.
Unwatched == event # NoConn /\ event \notin watched
ClosedIsNoticed ==
    event \in Conns \ alive => job[event] # "none" \/ missed \/ Unwatched

\* Once libvirtd stays up and connections stay open, LibvirtEvent comes to have
\* an open one for good, unless a close was left to a job that had already
\* connected, enable raised (both above), or the connection has no callback.
EventsReturn == <>[](event \in alive \/ missed \/ raced \/ Unwatched)

\* The pool is well formed and bounded, and each connection has one holder
\* (get, put).
Consistent == TypeOK /\ FreeWithinMax /\ ConnHasOneHolder

\* No open connection and no close is lost, or it is known why (put,
\* LibvirtEventConnCloseHandler).
NothingIsLost == NoConnIsLost /\ ClosedIsNoticed /\ StuckOnlyByRace
=============================================================================
