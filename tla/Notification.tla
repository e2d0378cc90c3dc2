---------------------------- MODULE Notification ----------------------------
(***************************************************************************)
(* START and STOP requests: NOTIFY reaches every connection of the pool    *)
(* that listens, whoever uses a connection next runs NotificationHandler   *)
(* inside the driver, and one goroutine takes the accepted signals from a  *)
(* bounded channel.  What a signal does then is in Scheduler.              *)
(***************************************************************************)
EXTENDS Naturals, Sequences, FiniteSets

CONSTANTS
    Contents,   \* what a payload asks for: command, chain and delay
    Valid,      \* contents with a known command and a positive chain ID
    Starts,     \* valid contents whose command is START
    Conns,      \* connections the pool may have
    Cap,        \* capacity of chainSignalChan: 64 in the code
    NotifyTTL,  \* how long a payload is remembered: 60 seconds in the code
    MaxTime,    \* bound on the clock
    MaxNotify,  \* bound on the number of NOTIFYs
    None        \* "no signal", "no connection"

Payloads == [content : Contents, ts : 0..MaxTime]

ASSUME NotificationAssumption ==
    /\ Valid \subseteq Contents /\ Starts \subseteq Valid
    /\ Cap \in Nat \ {0} /\ NotifyTTL \in Nat /\ MaxTime \in Nat /\ MaxNotify \in Nat
    /\ None \notin Payloads /\ None \notin Conns

VARIABLES
    now,            \* clock, in seconds; the server's and the client's agree
    notified,       \* number of NOTIFYs so far
    listening,      \* connections that are open and listen
    owner,          \* who uses a connection: nobody, the signal goroutine, any other
    inbox,          \* notifications on the wire of each connection
    notifications,  \* payloads that are remembered
    sending,        \* signal the handler of a connection hands to the channel, or None
    chainSignalChan,
    pc,             \* where the goroutine of retrieveAsyncChainsAndRun is
    ctx,            \* its context is done
    accepted,       \* history: payloads that a handler has handed on
    due             \* history: valid payloads that reached a connection, are not taken by the
                    \* goroutine yet, and were on no connection that closed

connVars     == <<listening, owner, inbox>>
history      == <<accepted, due>>
vars == <<now, notified, connVars, notifications, sending, chainSignalChan, pc, ctx,
          history>>

TypeOK ==
    /\ now \in 0..MaxTime /\ notified \in 0..MaxNotify
    /\ listening \in SUBSET Conns
    /\ owner \in [Conns -> {"pool", "consumer", "other"}]
    /\ inbox \in [Conns -> Seq(Payloads)]
    /\ notifications \in SUBSET Payloads
    /\ sending \in [Conns -> Payloads \cup {None}]
    /\ chainSignalChan \in Seq(Payloads) /\ Len(chainSignalChan) <= Cap
    /\ pc \in {"wait", "select", "query", "returned"}
    /\ ctx \in BOOLEAN
    /\ accepted \in SUBSET Payloads /\ due \in SUBSET Payloads

Init ==
    /\ now = 0 /\ notified = 0
    /\ listening = Conns
    /\ owner = [c \in Conns |-> "pool"]
    /\ inbox = [c \in Conns |-> <<>>]
    /\ notifications = {}
    /\ sending = [c \in Conns |-> None]
    /\ chainSignalChan = <<>>
    /\ pc = "wait"
    /\ ctx = FALSE
    /\ accepted = {} /\ due = {}

Tick ==
    /\ now < MaxTime
    /\ now' = now + 1
    /\ UNCHANGED <<notified, connVars, notifications, sending, chainSignalChan, pc, ctx,
                   history>>

\* notify_chain_start, notify_chain_stop or a NOTIFY of one's own.  The payload has the second
\* of the request; every connection that listens gets it.
Notify(r) ==
    LET p == [content |-> r, ts |-> now] IN
    /\ notified < MaxNotify
    /\ notified' = notified + 1
    /\ inbox' = [c \in Conns |-> IF c \in listening THEN Append(inbox[c], p) ELSE inbox[c]]
    /\ due' = IF listening # {} /\ r \in Valid /\ p \notin accepted THEN due \cup {p} ELSE due
    /\ UNCHANGED <<now, listening, owner, notifications, sending, chainSignalChan, pc, ctx,
                   accepted>>

\* Mutant: a payload is forgotten a second too early.
ForgetEarly ==
    /\ \E p \in notifications : now - p.ts >= NotifyTTL
    /\ notifications' = {p \in notifications : now - p.ts < NotifyTTL}
    /\ UNCHANGED <<now, notified, connVars, sending, chainSignalChan, pc, ctx, history>>

\* The ticker of the map, in whatever phase.
Forget ==
    /\ \E p \in notifications : now - p.ts > NotifyTTL
    /\ notifications' = {p \in notifications : now - p.ts <= NotifyTTL}
    /\ UNCHANGED <<now, notified, connVars, sending, chainSignalChan, pc, ctx, history>>

-----------------------------------------------------------------------------
(* NotificationHandler, run by the driver of a connection in use.          *)

\* Under the mutex: a payload that is remembered is dropped, any other is remembered, and is
\* handed on if it is valid.
NotificationHandler(c) ==
    /\ owner[c] # "pool"
    /\ sending[c] = None
    /\ inbox[c] # <<>>
    /\ LET p == Head(inbox[c]) IN
        /\ inbox' = [inbox EXCEPT ![c] = Tail(@)]
        /\ notifications' = notifications \cup {p}
        /\ IF p \notin notifications /\ p.content \in Valid
             THEN /\ sending' = [sending EXCEPT ![c] = p]
                  /\ accepted' = accepted \cup {p}
             ELSE UNCHANGED <<sending, accepted>>
    /\ UNCHANGED <<now, notified, listening, owner, chainSignalChan, pc, ctx, due>>

\* Mutant: a full channel drops the signal, as SendChain would.
SignalOrDrop(c) ==
    /\ sending[c] # None
    /\ chainSignalChan' = IF Len(chainSignalChan) < Cap THEN Append(chainSignalChan, sending[c])
                                                        ELSE chainSignalChan
    /\ sending' = [sending EXCEPT ![c] = None]
    /\ UNCHANGED <<now, notified, connVars, notifications, pc, ctx, history>>

\* The send blocks while the channel is full, and the connection with it; no context ends it.
SendSignal(c) ==
    /\ sending[c] # None
    /\ Len(chainSignalChan) < Cap
    /\ chainSignalChan' = Append(chainSignalChan, sending[c])
    /\ sending' = [sending EXCEPT ![c] = None]
    /\ UNCHANGED <<now, notified, connVars, notifications, pc, ctx, history>>

-----------------------------------------------------------------------------
(* The pool.                                                               *)

\* A worker, a fetch or a log flush takes a connection.
Acquire(c) ==
    /\ owner[c] = "pool" /\ c \in listening
    /\ owner' = [owner EXCEPT ![c] = "other"]
    /\ UNCHANGED <<now, notified, listening, inbox, notifications, sending, chainSignalChan,
                   pc, ctx, history>>

\* A statement has been answered: everything the server sent before has been read.
Answered(c) == inbox[c] = <<>> /\ sending[c] = None

\* AfterRelease, first statement: DISCARD ALL, which unlistens.
Released(c) ==
    /\ listening' = listening \ {c}
    /\ owner' = [owner EXCEPT ![c] = "pool"]

Release(c) ==
    /\ owner[c] = "other"
    /\ Answered(c)
    /\ Released(c)
    /\ UNCHANGED <<now, notified, inbox, notifications, sending, chainSignalChan, pc,
                   ctx, history>>

\* The second statement of AfterRelease, or AfterConnect of a new connection: LISTEN.
Listen(c) ==
    /\ owner[c] = "pool" /\ c \notin listening
    /\ listening' = listening \cup {c}
    /\ UNCHANGED <<now, notified, owner, inbox, notifications, sending, chainSignalChan,
                   pc, ctx, history>>

\* A closed connection loses what is on its wire.
Closed(c) ==
    /\ listening' = listening \ {c}
    /\ due' = due \ {inbox[c][i] : i \in DOMAIN inbox[c]}
    /\ inbox' = [inbox EXCEPT ![c] = <<>>]

\* The pool closes a connection that idled or lived for too long.
Close(c) ==
    /\ owner[c] = "pool" /\ c \in listening
    /\ Closed(c)
    /\ UNCHANGED <<now, notified, owner, notifications, sending, chainSignalChan, pc,
                   ctx, accepted>>

-----------------------------------------------------------------------------
(* retrieveAsyncChainsAndRun                                               *)

Cancel ==
    /\ ctx' = TRUE
    /\ UNCHANGED <<now, notified, connVars, notifications, sending, chainSignalChan, pc,
                   history>>

WaitForChainSignal ==
    /\ pc = "wait"
    /\ \/ /\ chainSignalChan # <<>>
          /\ chainSignalChan' = Tail(chainSignalChan)
          /\ due' = due \ {Head(chainSignalChan)}
          /\ pc' = IF Head(chainSignalChan).content \in Starts THEN "select" ELSE "wait"
       \/ ctx /\ pc' = "returned" /\ UNCHANGED <<chainSignalChan, due>>
    /\ UNCHANGED <<now, notified, connVars, notifications, sending, ctx, accepted>>

\* SelectChain of a START needs a connection, ...
SelectChain(c) ==
    /\ pc = "select" /\ owner[c] = "pool" /\ c \in listening
    /\ owner' = [owner EXCEPT ![c] = "consumer"]
    /\ pc' = "query"
    /\ UNCHANGED <<now, notified, listening, inbox, notifications, sending, chainSignalChan,
                   ctx, history>>

\* Mutant: after an error the goroutine returns.
ChainSelectedOrReturn(c) ==
    /\ pc = "query" /\ owner[c] = "consumer"
    /\ Answered(c) /\ Released(c)
    /\ pc' \in {"wait", "returned"}
    /\ UNCHANGED <<now, notified, inbox, notifications, sending, chainSignalChan, ctx,
                   history>>

\* ... and is answered with the chain or an error, which is logged.
ChainSelected(c) ==
    /\ pc = "query" /\ owner[c] = "consumer"
    /\ Answered(c) /\ Released(c)
    /\ pc' = "wait"
    /\ UNCHANGED <<now, notified, inbox, notifications, sending, chainSignalChan, ctx,
                   history>>

\* A context that is done fails the query, before it has a connection or while it reads from
\* it; the driver closes that one.
SelectCancelled ==
    /\ ctx
    /\ pc' = "wait"
    /\ \/ pc = "select" /\ UNCHANGED <<connVars, due>>
       \/ /\ pc = "query"
          /\ \E c \in Conns :
              /\ owner[c] = "consumer" /\ sending[c] = None
              /\ Closed(c)
              /\ owner' = [owner EXCEPT ![c] = "pool"]
    /\ UNCHANGED <<now, notified, notifications, sending, chainSignalChan, ctx,
                   accepted>>

-----------------------------------------------------------------------------
HandlerStep(c) == NotificationHandler(c) \/ SendSignal(c)

PoolStep(c) == Acquire(c) \/ Release(c) \/ Listen(c) \/ Close(c)

ConsumerStep ==
    \/ WaitForChainSignal \/ SelectCancelled
    \/ \E c \in Conns : SelectChain(c) \/ ChainSelected(c)

Next ==
    \/ Tick \/ Forget \/ Cancel \/ ConsumerStep
    \/ \E r \in Contents : Notify(r)
    \/ \E c \in Conns : HandlerStep(c) \/ PoolStep(c)

Spec == Init /\ [][Next]_vars

\* Goroutines are scheduled, statements are answered and connections returned; nobody has to
\* use a connection that idles, and the signal goroutine gets one if they keep coming back.
Fairness ==
    /\ \A c \in Conns :
        /\ WF_vars(NotificationHandler(c)) /\ SF_vars(SendSignal(c))
        /\ WF_vars(Release(c)) /\ WF_vars(Listen(c))
    /\ SF_vars(\E c \in Conns : SelectChain(c))
    /\ WF_vars(WaitForChainSignal) /\ WF_vars(\E c \in Conns : ChainSelected(c))

LiveSpec == Spec /\ Fairness

-----------------------------------------------------------------------------
(* Properties.                                                             *)

\* However many connections deliver a notification, in whatever order they are read, closed and
\* reset, no handler accepts it a second time within its TTL (NotificationHandler).
HandledOnce ==
    [][\A p \in accepted, c \in Conns :
          sending'[c] = p /\ sending[c] # p => now - p.ts > NotifyTTL]_vars

Pending(p) ==
    \/ \E c \in Conns : sending[c] = p
    \/ \E i \in DOMAIN chainSignalChan : chainSignalChan[i] = p

\* A valid request that reached a connection is taken by the signal goroutine or still on its
\* way: neither a full channel nor the filter of duplicates loses it, only a connection that
\* closes unread does (NotificationHandler, retrieveAsyncChainsAndRun).
NothingLost ==
    \A p \in due : Pending(p) \/ \E c \in Conns : \E i \in DOMAIN inbox[c] : inbox[c][i] = p

\* The signal goroutine cannot go on: it waits for its own handler, or for a connection while
\* every one is in the hands of a handler, and the channel they all send to is full.
Stuck ==
    /\ Len(chainSignalChan) = Cap
    /\ \/ pc = "query" /\ \E c \in Conns : owner[c] = "consumer" /\ sending[c] # None
       \/ pc = "select" /\ \A c \in Conns : sending[c] # None

\* An accepted signal is taken in the end, whatever the earlier ones end with; the one exception
\* is that full channel (NotificationHandler, retrieveAsyncChainsAndRun).
AcceptedIsTaken == \A p \in Payloads : Pending(p) ~> (~Pending(p) \/ Stuck \/ ctx)
=============================================================================
