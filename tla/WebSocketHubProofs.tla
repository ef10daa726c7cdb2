-------------------------- MODULE WebSocketHubProofs --------------------------
(***************************************************************************)
(* Theorems about WebSocketHub for any number of clients, symbols and      *)
(* publishers and any size of the send buffers.                            *)
(***************************************************************************)
EXTENDS WebSocketHub, TLAPS

New(c) == At(c, "none") \/ At(c, "connect")
Gone(c) == At(c, "done")
SendPoints == {"snapshot", "depth", "confirm", "reply"}

\* A client that is about to be forgotten was dropped.
DropsAreKnown == \A c \in Clients : BeingDropped(c) => c \in dropped

\* A reader drops its client in the middle of a send.
DropsInSend == \A c \in Clients : reader[c].dropping => reader[c].pc \in SendPoints

\* A client that connected and has not left is in the map, unless it was dropped.
Registered == \A c \in Clients : New(c) \/ Gone(c) \/ c \in dropped \/ c \in clients

\* Only the subscriptions of a client that has left are being removed.
RemovesTheGone ==
    run.pc \in {"lock", "remove"} => run.client \in Clients /\ Gone(run.client)

\* The two maps of subscriptions agree until the client has left and they are
\* removed; afterwards it has none, unless it was dropped.
Agreement ==
    \A c \in Clients, s \in Symbols :
        /\ ~Gone(c) \/ BeingRemoved(c) => (c \in subscribers[s] <=> s \in symbols[c])
        /\ Gone(c) /\ ~BeingRemoved(c) /\ c \notin dropped => c \notin subscribers[s]

\* Nobody sends to a client before it is registered.
NewcomersAreUnknown ==
    \A c \in Clients : New(c) =>
        /\ c \notin closed
        /\ \A s \in Symbols : c \notin subscribers[s]
        /\ \A p \in Publishers : c \notin publisher[p].left
        /\ \A j \in run.left : j.client # c

\* A closed channel is that of a client that was dropped or has left, ...
ClosedIsDroppedOrGone == \A c \in closed : c \in dropped \/ Gone(c)

\* ... and the loop sends to one only if it was dropped.
UpdatesReachOpen == \A j \in run.left : j.client \in closed => j.client \in dropped

\* Only an update has work left.
WorkIsAnUpdate == run.pc # "update" => run.left = {}

HubInv ==
    /\ TypeOK /\ DropsAreKnown /\ DropsInSend /\ Registered /\ RemovesTheGone /\ Agreement
    /\ NewcomersAreUnknown /\ ClosedIsDroppedOrGone /\ UpdatesReachOpen /\ WorkIsAnUpdate
    /\ ClientsAreOpen /\ PanicsOnlyAfterDrop

-----------------------------------------------------------------------------
(* What a step of a reader, of a publisher or a send changes.               *)

LEMMA ReaderMoves ==
    ASSUME TypeOK, NEW c \in Clients, NEW r \in ReaderState,
           reader' = [reader EXCEPT ![c] = r]
    PROVE  /\ reader' \in [Clients -> ReaderState]
           /\ reader'[c] = r
           /\ \A x \in Clients : x # c => reader'[x] = reader[x]
BY DEF TypeOK

LEMMA ReaderGoes ==
    ASSUME TypeOK, NEW c \in Clients, NEW pc \in ReaderPoints, Goto(c, pc)
    PROVE  /\ reader' \in [Clients -> ReaderState]
           /\ reader'[c].pc = pc
           /\ reader'[c].dropping = reader[c].dropping
           /\ \A x \in Clients : x # c => reader'[x] = reader[x]
<1> DEFINE r == [reader[c] EXCEPT !.pc = pc]
<1>1. r \in ReaderState /\ r.pc = pc /\ r.dropping = reader[c].dropping
  BY DEF TypeOK, ReaderState
<1>2. reader' = [reader EXCEPT ![c] = r]
  BY DEF Goto
<1> HIDE DEF r
<1> QED
  BY <1>1, <1>2, ReaderMoves

LEMMA PublisherMoves ==
    ASSUME TypeOK, NEW p \in Publishers, NEW r \in PublisherState,
           publisher' = [publisher EXCEPT ![p] = r]
    PROVE  /\ publisher' \in [Publishers -> PublisherState]
           /\ publisher'[p] = r
           /\ \A x \in Publishers : x # p => publisher'[x] = publisher[x]
BY DEF TypeOK

LEMMA BufferMoves ==
    ASSUME TypeOK, NEW c \in Clients, NEW n \in 0 .. BufferSize,
           buffer' = [buffer EXCEPT ![c] = n]
    PROVE  buffer' \in [Clients -> 0 .. BufferSize]
BY DEF TypeOK

LEMMA DeliverMoves ==
    ASSUME TypeOK, NEW c \in Clients, Deliver(c)
    PROVE  /\ buffer' \in [Clients -> 0 .. BufferSize]
           /\ c \notin closed
           /\ closed' = closed /\ panicked' = panicked /\ dropped' = dropped
<1>1. buffer[c] \in 0 .. BufferSize /\ BufferSize \in Nat
  BY HubAssumption DEF TypeOK
<1>2. buffer[c] + 1 \in 0 .. BufferSize
  BY <1>1 DEF Deliver
<1>3. buffer' = [buffer EXCEPT ![c] = buffer[c] + 1]
  BY DEF Deliver
<1>4. buffer' \in [Clients -> 0 .. BufferSize]
  BY <1>2, <1>3, BufferMoves
<1> QED
  BY <1>4 DEF Deliver

-----------------------------------------------------------------------------
(* Steps that change neither a map nor what a channel or the loop is.       *)

\* every client is as new, as gone and as dropped as before
SamePhase ==
    \A x \in Clients : /\ New(x)' <=> New(x)
                       /\ Gone(x)' <=> Gone(x)
                       /\ reader'[x].dropping = reader[x].dropping
                       /\ reader'[x].dropping => reader'[x].pc \in SendPoints

LEMMA QuietStep ==
    ASSUME HubInv, SamePhase,
           reader' \in [Clients -> ReaderState],
           buffer' \in [Clients -> 0 .. BufferSize],
           writer' \in [Clients -> {"none", "run", "stopped"}],
           UNCHANGED <<clients, subscriptions, closed, panicked, dropped, run, publisher>>
    PROVE  HubInv'
<1>1. TypeOK'
  BY DEF HubInv, TypeOK, subscriptions
<1>2. DropsAreKnown' /\ DropsInSend' /\ ClientsAreOpen' /\ PanicsOnlyAfterDrop'
  BY DEF HubInv, SamePhase, DropsAreKnown, DropsInSend, ClientsAreOpen, PanicsOnlyAfterDrop,
         BeingDropped, TypeOK
<1>3. Registered' /\ ClosedIsDroppedOrGone' /\ UpdatesReachOpen' /\ WorkIsAnUpdate'
  BY DEF HubInv, SamePhase, Registered, ClosedIsDroppedOrGone, UpdatesReachOpen,
         WorkIsAnUpdate, TypeOK
<1>4. RemovesTheGone' /\ NewcomersAreUnknown'
  BY DEF HubInv, SamePhase, RemovesTheGone, NewcomersAreUnknown, subscriptions
<1>5. Agreement'
  BY DEF HubInv, SamePhase, Agreement, BeingRemoved, subscriptions
<1> QED
  BY <1>1, <1>2, <1>3, <1>4, <1>5 DEF HubInv

\* a reader that is neither new nor gone nor dropping goes from one point to another
LEMMA QuietReader ==
    ASSUME HubInv, NEW c \in Clients,
           reader' \in [Clients -> ReaderState],
           \A x \in Clients : x # c => reader'[x] = reader[x],
           reader[c].dropping = FALSE, reader'[c].dropping = FALSE,
           \/ reader[c].pc = "none" /\ reader'[c].pc = "connect"
           \/ /\ reader[c].pc \notin {"none", "connect", "done"}
              /\ reader'[c].pc \notin {"none", "connect", "done"}
    PROVE  SamePhase
BY DEF HubInv, DropsInSend, SamePhase, New, Gone, At

LEMMA StepConnect ==
    ASSUME HubInv, NEW c \in Clients, Connect(c) \/ Hangup(c)
    PROVE  HubInv'
<1>1. PICK pc \in ReaderPoints :
          /\ Goto(c, pc)
          /\ \/ reader[c].pc = "none" /\ pc = "connect"
             \/ reader[c].pc = "read" /\ pc = "unregister"
  BY DEF Connect, Hangup, At, ReaderPoints
<1>2. /\ reader' \in [Clients -> ReaderState]
      /\ reader'[c].pc = pc
      /\ reader'[c].dropping = reader[c].dropping
      /\ \A x \in Clients : x # c => reader'[x] = reader[x]
  BY <1>1, ReaderGoes DEF HubInv
<1>3. reader[c].dropping = FALSE
  BY <1>1 DEF HubInv, DropsInSend, SendPoints, TypeOK, ReaderState
<1>4. SamePhase
  BY <1>1, <1>2, <1>3, QuietReader
<1>5. UNCHANGED <<clients, subscriptions, channels, run, writer, publisher>>
  BY DEF Connect, Hangup
<1> QED
  BY <1>2, <1>4, <1>5, QuietStep DEF HubInv, TypeOK, channels

LEMMA StepRequest ==
    ASSUME HubInv, NEW c \in Clients,
           RequestDone(c) \/ \E S \in SUBSET Symbols, pc \in {"subscribe", "unsubscribe", "reply"} :
                                 Request(c, pc, S)
    PROVE  HubInv'
<1> DEFINE old == reader[c]
<1>0. old \in ReaderState
  BY DEF HubInv, TypeOK
<1>1. /\ old.pc \in {"read", "subscribe", "unsubscribe"}
      /\ old.dropping = FALSE
  <2>1. old.pc \in {"read", "subscribe", "unsubscribe"}
    BY DEF RequestDone, Request, At
  <2> QED
    BY <1>0, <2>1 DEF HubInv, DropsInSend, SendPoints, ReaderState
<1>2. PICK r \in ReaderState :
          /\ reader' = [reader EXCEPT ![c] = r]
          /\ r.pc \in {"subscribe", "unsubscribe", "reply", "confirm"}
          /\ r.dropping = old.dropping
  <2>1. CASE RequestDone(c)
    <3> DEFINE r == [old EXCEPT !.pc = "confirm", !.sym = None]
    <3>1. r \in ReaderState /\ r.pc = "confirm" /\ r.dropping = old.dropping
      BY <1>0 DEF ReaderState, ReaderPoints
    <3>2. reader' = [reader EXCEPT ![c] = r]
      BY <2>1 DEF RequestDone
    <3> QED
      BY <3>1, <3>2
  <2>2. ASSUME NEW S \in SUBSET Symbols, NEW pc \in {"subscribe", "unsubscribe", "reply"},
               Request(c, pc, S)
        PROVE  \E r \in ReaderState :
                   /\ reader' = [reader EXCEPT ![c] = r]
                   /\ r.pc \in {"subscribe", "unsubscribe", "reply", "confirm"}
                   /\ r.dropping = old.dropping
    <3> DEFINE r == [old EXCEPT !.pc = pc, !.todo = S]
    <3>1. r \in ReaderState /\ r.pc = pc /\ r.dropping = old.dropping
      BY <1>0 DEF ReaderState, ReaderPoints
    <3>2. reader' = [reader EXCEPT ![c] = r]
      BY <2>2 DEF Request
    <3> QED
      BY <3>1, <3>2
  <2> QED
    BY <2>1, <2>2
<1>3. /\ reader' \in [Clients -> ReaderState]
      /\ reader'[c] = r
      /\ \A x \in Clients : x # c => reader'[x] = reader[x]
  BY <1>2, ReaderMoves DEF HubInv
<1>4. SamePhase
  BY <1>1, <1>2, <1>3, QuietReader
<1>5. UNCHANGED <<clients, subscriptions, channels, run, writer, publisher>>
  BY DEF RequestDone, Request
<1> QED
  BY <1>3, <1>4, <1>5, QuietStep DEF HubInv, TypeOK, channels

LEMMA StepWrite ==
    ASSUME HubInv, NEW c \in Clients, Write(c) \/ WriteFails(c) \/ WriterEnds(c)
    PROVE  HubInv'
<1>1. SamePhase /\ reader' \in [Clients -> ReaderState]
  BY DEF Write, WriteFails, WriterEnds, channels, SamePhase, New, Gone, At, HubInv, DropsInSend,
         TypeOK
<1>2. buffer' \in [Clients -> 0 .. BufferSize]
  <2>1. buffer[c] \in 0 .. BufferSize /\ BufferSize \in Nat /\ 0 \in 0 .. BufferSize
    BY HubAssumption DEF HubInv, TypeOK
  <2>2. PICK n \in 0 .. BufferSize : buffer' = [buffer EXCEPT ![c] = n] \/ buffer' = buffer
    <3>1. buffer[c] > 0 => buffer[c] - 1 \in 0 .. BufferSize
      BY <2>1
    <3> QED
      BY <2>1, <3>1 DEF Write, WriteFails, WriterEnds, channels
  <2> QED
    BY <2>2, BufferMoves DEF HubInv, TypeOK
<1>3. writer' \in [Clients -> {"none", "run", "stopped"}]
  BY DEF Write, WriteFails, WriterEnds, HubInv, TypeOK
<1>4. UNCHANGED <<clients, subscriptions, closed, panicked, dropped, run, publisher>>
  BY DEF Write, WriteFails, WriterEnds, channels
<1> QED
  BY <1>1, <1>2, <1>3, <1>4, QuietStep

LEMMA StepSend ==
    ASSUME HubInv, NEW c \in Clients, Send(c)
    PROVE  HubInv'
<1>1. reader[c].pc \in SendPoints /\ reader[c].dropping = FALSE
  BY DEF Send, Sending, SendPoints, HubInv, TypeOK, ReaderState
<1>2. After(reader[c].pc) \in {"depth", "subscribe", "read"}
  BY <1>1 DEF After, SendPoints
<1>3. Goto(c, After(reader[c].pc)) /\ After(reader[c].pc) \in ReaderPoints
  BY <1>2 DEF Send, ReaderPoints
<1>4. /\ reader' \in [Clients -> ReaderState]
      /\ reader'[c].pc = After(reader[c].pc)
      /\ reader'[c].dropping = reader[c].dropping
      /\ \A x \in Clients : x # c => reader'[x] = reader[x]
  BY <1>3, ReaderGoes DEF HubInv
<1>5. SamePhase
  BY <1>1, <1>2, <1>4, QuietReader DEF SendPoints
<1>6. /\ buffer' \in [Clients -> 0 .. BufferSize]
      /\ closed' = closed /\ panicked' = panicked /\ dropped' = dropped
  BY DeliverMoves DEF Send, HubInv
<1> QED
  BY <1>4, <1>5, <1>6, QuietStep DEF Send, HubInv, TypeOK

-----------------------------------------------------------------------------
(* Connections and requests that change the maps or close a channel.        *)

LEMMA StepRegister ==
    ASSUME HubInv, NEW c \in Clients, Register(c)
    PROVE  HubInv'
<1>1. /\ reader' \in [Clients -> ReaderState]
      /\ reader'[c].pc = "read"
      /\ reader'[c].dropping = reader[c].dropping
      /\ \A x \in Clients : x # c => reader'[x] = reader[x]
  BY ReaderGoes DEF Register, ReaderPoints, HubInv
<1>2. /\ reader[c].pc = "connect" /\ clients' = clients \cup {c}
      /\ UNCHANGED <<subscribers, symbols, closed, panicked, dropped, buffer, run, publisher>>
  BY DEF Register, At, subscriptions, channels
<1>3. reader[c].dropping = FALSE /\ c \notin closed
  BY <1>2 DEF HubInv, DropsInSend, SendPoints, TypeOK, ReaderState, NewcomersAreUnknown, New, At
<1>4. TypeOK'
  BY <1>1, <1>2 DEF Register, HubInv, TypeOK
<1>5. DropsAreKnown' /\ DropsInSend' /\ PanicsOnlyAfterDrop'
  BY <1>1, <1>2, <1>3 DEF HubInv, DropsAreKnown, DropsInSend, PanicsOnlyAfterDrop, BeingDropped
<1>6. ClientsAreOpen'
  BY <1>1, <1>2, <1>3 DEF HubInv, TypeOK, ClientsAreOpen, BeingDropped
<1>7. Registered' /\ RemovesTheGone' /\ NewcomersAreUnknown' /\ ClosedIsDroppedOrGone'
  BY <1>1, <1>2 DEF HubInv, TypeOK, Registered, RemovesTheGone, NewcomersAreUnknown,
                    ClosedIsDroppedOrGone, New, Gone, At
<1>8. Agreement' /\ UpdatesReachOpen' /\ WorkIsAnUpdate'
  BY <1>1, <1>2 DEF HubInv, Agreement, UpdatesReachOpen, WorkIsAnUpdate, BeingRemoved, Gone, At
<1> QED
  BY <1>4, <1>5, <1>6, <1>7, <1>8 DEF HubInv

LEMMA StepUnregister ==
    ASSUME HubInv, NEW c \in Clients, Unregister(c)
    PROVE  HubInv'
<1>1. /\ reader' \in [Clients -> ReaderState]
      /\ reader'[c].pc = "done"
      /\ reader'[c].dropping = reader[c].dropping
      /\ \A x \in Clients : x # c => reader'[x] = reader[x]
  BY ReaderGoes DEF Unregister, ReaderPoints, HubInv
<1>2. /\ reader[c].pc = "unregister" /\ ~panicked /\ run.pc = "select" /\ run.left = {}
      /\ UNCHANGED <<subscribers, symbols, dropped, buffer, writer, publisher>>
  BY DEF Unregister, At, subscriptions, HubInv, WorkIsAnUpdate
<1>3. /\ reader[c].dropping = FALSE
      /\ c \in closed \/ c \notin clients => c \in dropped
  BY <1>2 DEF HubInv, DropsInSend, SendPoints, TypeOK, ReaderState, ClosedIsDroppedOrGone,
              Registered, New, Gone, At
<1> DEFINE r == [run EXCEPT !.pc = "lock", !.client = c]
<1>4. IF c \in clients
      THEN clients' = clients \ {c} /\ closed' = closed \cup {c} /\ run' = r
      ELSE clients' = clients /\ closed' = closed /\ run' = run
  BY DEF Unregister
<1>5. /\ r \in RunState /\ r.pc = "lock" /\ r.client = c /\ r.left = {}
      /\ run \in RunState
  BY <1>2 DEF HubInv, TypeOK, RunState
<1> HIDE DEF r
<1>6. /\ clients' = clients \ {c}
      /\ closed \subseteq closed' /\ closed' \subseteq closed \cup {c}
      /\ run' \in RunState /\ run'.left = {}
      /\ IF c \in clients THEN run'.pc = "lock" /\ run'.client = c ELSE run'.pc = "select"
  <2>1. CASE c \in clients
    BY <1>4, <1>5, <2>1
  <2>2. CASE c \notin clients
    <3>1. clients \ {c} = clients
      BY <2>2
    <3> QED
      BY <1>2, <1>4, <1>5, <2>2, <3>1
  <2> QED
    BY <2>1, <2>2
<1>7. /\ panicked' \in BOOLEAN
      /\ panicked' => c \in dropped
  <2>1. CASE c \in clients
    <3>1. panicked' = (c \in closed)
      BY <2>1 DEF Unregister
    <3>2. (c \in closed) \in BOOLEAN
      OBVIOUS
    <3> QED
      BY <1>3, <3>1, <3>2
  <2>2. CASE c \notin clients
    BY <1>2, <2>2, Zenon DEF Unregister, HubInv, TypeOK
  <2> QED
    BY <2>1, <2>2
<1>8. TypeOK'
  BY <1>1, <1>2, <1>6, <1>7 DEF HubInv, TypeOK
<1>9. DropsAreKnown' /\ DropsInSend' /\ PanicsOnlyAfterDrop'
  BY <1>1, <1>2, <1>3, <1>7 DEF HubInv, DropsAreKnown, DropsInSend, PanicsOnlyAfterDrop,
                                BeingDropped
<1>10. ClientsAreOpen'
  BY <1>1, <1>2, <1>6 DEF HubInv, TypeOK, ClientsAreOpen, BeingDropped
<1>11. Registered' /\ RemovesTheGone' /\ ClosedIsDroppedOrGone'
  BY <1>1, <1>2, <1>6 DEF HubInv, TypeOK, Registered, RemovesTheGone,
                          ClosedIsDroppedOrGone, New, Gone, At
<1>12. NewcomersAreUnknown' /\ UpdatesReachOpen' /\ WorkIsAnUpdate'
  BY <1>1, <1>2, <1>6 DEF HubInv, NewcomersAreUnknown, UpdatesReachOpen, WorkIsAnUpdate,
                          New, At
<1>13. Agreement'
  BY <1>1, <1>2, <1>3, <1>6 DEF HubInv, Agreement, BeingRemoved, Gone, At
<1> QED
  BY <1>8, <1>9, <1>10, <1>11, <1>12, <1>13 DEF HubInv

\* a subscription or the end of one, made on both sides
LEMMA StepSubscription ==
    ASSUME HubInv, NEW c \in Clients, NEW s \in Symbols,
           SubscribeTo(c, s) \/ UnsubscribeFrom(c, s)
    PROVE  HubInv'
<1> DEFINE old == reader[c]
<1>0. old \in ReaderState
  BY DEF HubInv, TypeOK
<1>1. old.pc \in {"subscribe", "unsubscribe"} /\ old.dropping = FALSE
  <2>1. old.pc \in {"subscribe", "unsubscribe"}
    BY DEF SubscribeTo, UnsubscribeFrom, At
  <2> QED
    BY <1>0, <2>1 DEF HubInv, DropsInSend, SendPoints, ReaderState
<1>2. PICK r \in ReaderState :
          /\ reader' = [reader EXCEPT ![c] = r]
          /\ r.pc \in {"subscribe", "unsubscribe", "snapshot"}
          /\ r.dropping = old.dropping
  <2>1. CASE SubscribeTo(c, s)
    <3> DEFINE pc == IF s \in Books THEN "snapshot" ELSE "subscribe"
               todo == old.todo \ {s}
               r == [old EXCEPT !.pc = pc, !.todo = todo, !.sym = s]
    <3>1. pc \in {"snapshot", "subscribe"} /\ todo \in SUBSET Symbols
      BY <1>0 DEF ReaderState
    <3>2. reader' = [reader EXCEPT ![c] = r]
      BY <2>1 DEF SubscribeTo
    <3> HIDE DEF pc, todo
    <3>3. r \in ReaderState /\ r.pc = pc /\ r.dropping = old.dropping
      BY <1>0, <3>1 DEF ReaderState, ReaderPoints
    <3> QED
      BY <3>1, <3>2, <3>3
  <2>2. CASE UnsubscribeFrom(c, s)
    <3> DEFINE r == [old EXCEPT !.todo = old.todo \ {s}]
    <3>1. r \in ReaderState /\ r.pc = old.pc /\ r.dropping = old.dropping
      BY <1>0 DEF ReaderState
    <3>2. reader' = [reader EXCEPT ![c] = r]
      BY <2>2 DEF UnsubscribeFrom
    <3> HIDE DEF r
    <3> QED
      BY <1>1, <3>1, <3>2
  <2> QED
    BY <2>1, <2>2
<1>3. /\ reader' \in [Clients -> ReaderState]
      /\ reader'[c] = r
      /\ \A x \in Clients : x # c => reader'[x] = reader[x]
  BY <1>2, ReaderMoves DEF HubInv
<1>4. /\ UNCHANGED <<clients, buffer, closed, panicked, dropped, run, writer, publisher>>
      /\ subscribers' \in [Symbols -> SUBSET Clients]
      /\ symbols' \in [Clients -> SUBSET Symbols]
      /\ \A x \in Clients, y \in Symbols :
            x # c \/ y # s => /\ x \in subscribers'[y] <=> x \in subscribers[y]
                              /\ y \in symbols'[x] <=> y \in symbols[x]
      /\ c \in subscribers'[s] <=> s \in symbols'[c]
  BY DEF SubscribeTo, UnsubscribeFrom, channels, HubInv, TypeOK
<1>5. SamePhase
  BY <1>1, <1>2, <1>3, QuietReader
<1>6. TypeOK'
  BY <1>3, <1>4 DEF HubInv, TypeOK
<1>7. DropsAreKnown' /\ DropsInSend' /\ ClientsAreOpen' /\ PanicsOnlyAfterDrop'
  BY <1>4, <1>5 DEF HubInv, SamePhase, DropsAreKnown, DropsInSend, ClientsAreOpen,
                    PanicsOnlyAfterDrop, BeingDropped, TypeOK
<1>8. /\ Registered' /\ RemovesTheGone' /\ ClosedIsDroppedOrGone'
      /\ UpdatesReachOpen' /\ WorkIsAnUpdate'
  BY <1>4, <1>5 DEF HubInv, SamePhase, Registered, RemovesTheGone, ClosedIsDroppedOrGone,
                    UpdatesReachOpen, WorkIsAnUpdate, TypeOK
<1>9. ~New(c) /\ ~Gone(c)
  BY <1>1 DEF New, Gone, At
<1>10. NewcomersAreUnknown'
  BY <1>4, <1>5, <1>9 DEF HubInv, SamePhase, NewcomersAreUnknown
<1>11. Agreement'
  <2>1. ~BeingRemoved(c)
    BY <1>9 DEF HubInv, RemovesTheGone, BeingRemoved
  <2>2. ~Gone(c)' /\ ~BeingRemoved(c)'
    BY <1>4, <1>5, <1>9, <2>1 DEF SamePhase, BeingRemoved
  <2> QED
    BY <1>4, <1>5, <1>9, <2>1, <2>2 DEF HubInv, SamePhase, Agreement, BeingRemoved
<1> QED
  BY <1>6, <1>7, <1>8, <1>10, <1>11 DEF HubInv

LEMMA StepSendTimeout ==
    ASSUME HubInv, NEW c \in Clients, SendTimeout(c)
    PROVE  HubInv'
<1>1. /\ reader[c].pc \in SendPoints /\ ~panicked
      /\ closed' = closed \cup {c} /\ dropped' = dropped \cup {c}
      /\ UNCHANGED <<clients, subscribers, symbols, buffer, panicked, run, writer, publisher>>
  BY DEF SendTimeout, Sending, CloseSlow, SendPoints, subscriptions
<1> DEFINE r == [reader[c] EXCEPT !.dropping = TRUE]
<1>2. r \in ReaderState /\ r.pc = reader[c].pc /\ r.dropping = TRUE
  BY DEF HubInv, TypeOK, ReaderState
<1>3. reader' = [reader EXCEPT ![c] = r]
  BY DEF SendTimeout
<1> HIDE DEF r
<1>4. /\ reader' \in [Clients -> ReaderState]
      /\ reader'[c].pc = reader[c].pc /\ reader'[c].dropping = TRUE
      /\ \A x \in Clients : x # c => reader'[x] = reader[x]
  BY <1>2, <1>3, ReaderMoves DEF HubInv
<1>5. TypeOK'
  BY <1>1, <1>4 DEF HubInv, TypeOK
<1>6. DropsAreKnown' /\ DropsInSend' /\ PanicsOnlyAfterDrop'
  BY <1>1, <1>4 DEF HubInv, DropsAreKnown, DropsInSend, PanicsOnlyAfterDrop, BeingDropped
<1>7. ClientsAreOpen'
  BY <1>1, <1>4 DEF HubInv, TypeOK, ClientsAreOpen, BeingDropped
<1>8. /\ Registered' /\ RemovesTheGone' /\ ClosedIsDroppedOrGone'
      /\ UpdatesReachOpen' /\ WorkIsAnUpdate'
  BY <1>1, <1>4 DEF HubInv, TypeOK, Registered, RemovesTheGone, ClosedIsDroppedOrGone,
                    UpdatesReachOpen, WorkIsAnUpdate, New, Gone, At
<1>9. NewcomersAreUnknown' /\ Agreement'
  BY <1>1, <1>4 DEF HubInv, NewcomersAreUnknown, Agreement, BeingRemoved, SendPoints, New, Gone, At
<1> QED
  BY <1>5, <1>6, <1>7, <1>8, <1>9 DEF HubInv

LEMMA StepForget ==
    ASSUME HubInv, NEW c \in Clients, Forget(c)
    PROVE  HubInv'
<1>1. /\ reader[c].dropping = TRUE /\ reader[c].pc \in SendPoints /\ c \in dropped
  BY DEF Forget, HubInv, TypeOK, ReaderState, DropsInSend, DropsAreKnown, BeingDropped
<1> DEFINE pc == After(reader[c].pc)
           r == [reader[c] EXCEPT !.pc = pc, !.dropping = FALSE]
<1>2. pc \in {"depth", "subscribe", "read"}
  BY <1>1 DEF After, SendPoints
<1>3. reader' = [reader EXCEPT ![c] = r]
  BY DEF Forget
<1> HIDE DEF pc
<1>4. r \in ReaderState /\ r.pc = pc /\ r.dropping = FALSE
  BY <1>2 DEF HubInv, TypeOK, ReaderState, ReaderPoints
<1> HIDE DEF r
<1>5. /\ reader' \in [Clients -> ReaderState]
      /\ reader'[c].pc = pc /\ reader'[c].dropping = FALSE
      /\ \A x \in Clients : x # c => reader'[x] = reader[x]
  BY <1>3, <1>4, ReaderMoves DEF HubInv
<1>6. /\ clients' = clients \ {c}
      /\ UNCHANGED <<subscribers, symbols, buffer, closed, panicked, dropped, run, writer,
                     publisher>>
  BY DEF Forget, subscriptions, channels
<1>7. TypeOK'
  BY <1>5, <1>6 DEF HubInv, TypeOK
<1>8. DropsAreKnown' /\ DropsInSend' /\ PanicsOnlyAfterDrop'
  BY <1>5, <1>6 DEF HubInv, DropsAreKnown, DropsInSend, PanicsOnlyAfterDrop, BeingDropped
<1>9. ClientsAreOpen'
  BY <1>5, <1>6 DEF HubInv, TypeOK, ClientsAreOpen, BeingDropped
<1>10. /\ Registered' /\ RemovesTheGone' /\ ClosedIsDroppedOrGone'
       /\ UpdatesReachOpen' /\ WorkIsAnUpdate'
  BY <1>1, <1>2, <1>5, <1>6 DEF HubInv, TypeOK, Registered, RemovesTheGone, ClosedIsDroppedOrGone,
                    UpdatesReachOpen, WorkIsAnUpdate, SendPoints, New, Gone, At
<1>11. NewcomersAreUnknown' /\ Agreement'
  BY <1>1, <1>2, <1>5, <1>6 DEF HubInv, NewcomersAreUnknown, Agreement, BeingRemoved, SendPoints,
                                New, Gone, At
<1> QED
  BY <1>7, <1>8, <1>9, <1>10, <1>11 DEF HubInv

\* the panic that ends everything
LEMMA Panics ==
    ASSUME HubInv, panicked' = TRUE,
           dropped # {} \/ \E p \in Publishers : publisher[p].left # {},
           UNCHANGED <<clients, subscriptions, buffer, closed, dropped, reader, writer, publisher>>,
           run' \in RunState, run'.pc = run.pc, run'.client = run.client,
           run'.left \subseteq run.left
    PROVE  HubInv'
<1>1. TypeOK'
  BY DEF HubInv, TypeOK, subscriptions
<1>2. DropsAreKnown' /\ DropsInSend' /\ ClientsAreOpen' /\ PanicsOnlyAfterDrop'
  BY DEF HubInv, DropsAreKnown, DropsInSend, ClientsAreOpen, PanicsOnlyAfterDrop, BeingDropped
<1>3. /\ Registered' /\ ClosedIsDroppedOrGone' /\ UpdatesReachOpen'
      /\ WorkIsAnUpdate' /\ RemovesTheGone'
  BY DEF HubInv, Registered, ClosedIsDroppedOrGone, UpdatesReachOpen, WorkIsAnUpdate,
         RemovesTheGone, New, Gone, At
<1>4. NewcomersAreUnknown' /\ Agreement'
  BY DEF HubInv, NewcomersAreUnknown, Agreement, BeingRemoved, New, Gone, At, subscriptions
<1> QED
  BY <1>1, <1>2, <1>3, <1>4 DEF HubInv

LEMMA StepSendPanics ==
    ASSUME HubInv, NEW c \in Clients, SendPanics(c)
    PROVE  HubInv'
<1>1. c \in dropped
  BY DEF SendPanics, Sending, SendOnClosed, HubInv, ClosedIsDroppedOrGone, Gone, At
<1>2. /\ panicked' = TRUE
      /\ UNCHANGED <<clients, subscriptions, buffer, closed, dropped, run, reader, writer,
                     publisher>>
  BY DEF SendPanics, SendOnClosed
<1> QED
  BY <1>1, <1>2, Panics DEF HubInv, TypeOK

-----------------------------------------------------------------------------
(* The loop.                                                                *)

\* the loop goes to another point, with no less to do and no subscription to remove
LEMMA StepLoop ==
    ASSUME HubInv, LockHub \/ UpdateDone \/ Stop
    PROVE  HubInv'
<1>1. /\ run.left = {} \/ run.pc = "update"
      /\ UNCHANGED <<clients, subscribers, symbols, buffer, closed, panicked, dropped, reader,
                     writer, publisher>>
  BY DEF LockHub, UpdateDone, Stop, subscriptions, channels, HubInv, WorkIsAnUpdate
<1>2. /\ run' \in RunState /\ run'.left = {}
      /\ run'.pc \in {"lock", "remove"} =>
            run.pc \in {"lock", "remove"} /\ run'.client = run.client
      /\ run.pc \in {"lock", "remove"} => run'.pc \in {"lock", "remove"}
  BY <1>1 DEF LockHub, UpdateDone, Stop, NoJob, HubInv, TypeOK, RunState
<1>3. TypeOK'
  BY <1>1, <1>2 DEF HubInv, TypeOK
<1>4. DropsAreKnown' /\ DropsInSend' /\ ClientsAreOpen' /\ PanicsOnlyAfterDrop'
  BY <1>1 DEF HubInv, DropsAreKnown, DropsInSend, ClientsAreOpen, PanicsOnlyAfterDrop, BeingDropped
<1>5. /\ Registered' /\ ClosedIsDroppedOrGone' /\ UpdatesReachOpen'
      /\ WorkIsAnUpdate' /\ RemovesTheGone'
  BY <1>1, <1>2 DEF HubInv, Registered, ClosedIsDroppedOrGone, UpdatesReachOpen, WorkIsAnUpdate,
                    RemovesTheGone, New, Gone, At
<1>6. NewcomersAreUnknown' /\ Agreement'
  BY <1>1, <1>2 DEF HubInv, NewcomersAreUnknown, Agreement, BeingRemoved, New, Gone, At
<1> QED
  BY <1>3, <1>4, <1>5, <1>6 DEF HubInv

LEMMA StepRemoveSubscriptions ==
    ASSUME HubInv, RemoveSubscriptions
    PROVE  HubInv'
<1> DEFINE c == run.client
<1>1. c \in Clients /\ Gone(c) /\ BeingRemoved(c)
  BY DEF RemoveSubscriptions, HubInv, RemovesTheGone, BeingRemoved
<1>2. /\ UNCHANGED <<clients, symbols, buffer, closed, panicked, dropped, reader, writer,
                     publisher>>
      /\ run' = NoJob
      /\ NoJob \in RunState /\ NoJob.left = {} /\ NoJob.pc = "select"
  BY DEF RemoveSubscriptions, NoJob, RunState, channels
<1>3. /\ subscribers' \in [Symbols -> SUBSET Clients]
      /\ \A x \in Clients, s \in Symbols :
            x \in subscribers'[s] <=> x \in subscribers[s] /\ ~(x = c /\ s \in symbols[c])
  BY DEF RemoveSubscriptions, HubInv, TypeOK
<1>4. \A x \in Clients : BeingRemoved(x) => x = c
  BY DEF BeingRemoved
<1> HIDE DEF c
<1>5. \A x \in Clients : ~BeingRemoved(x)'
  BY <1>2 DEF BeingRemoved
<1>6. TypeOK'
  BY <1>2, <1>3 DEF HubInv, TypeOK
<1>7. DropsAreKnown' /\ DropsInSend' /\ ClientsAreOpen' /\ PanicsOnlyAfterDrop'
  BY <1>2 DEF HubInv, DropsAreKnown, DropsInSend, ClientsAreOpen, PanicsOnlyAfterDrop, BeingDropped
<1>8. /\ Registered' /\ ClosedIsDroppedOrGone' /\ UpdatesReachOpen'
      /\ WorkIsAnUpdate' /\ RemovesTheGone'
  BY <1>2 DEF HubInv, Registered, ClosedIsDroppedOrGone, UpdatesReachOpen, WorkIsAnUpdate,
              RemovesTheGone, New, Gone, At
<1>9. NewcomersAreUnknown'
  BY <1>2, <1>3 DEF HubInv, NewcomersAreUnknown, New, At
<1>10. Agreement'
  <2> SUFFICES ASSUME NEW x \in Clients, NEW s \in Symbols
               PROVE  /\ ~Gone(x)' => (x \in subscribers'[s] <=> s \in symbols'[x])
                      /\ Gone(x)' /\ x \notin dropped' => x \notin subscribers'[s]
    BY <1>5 DEF Agreement
  <2>1. Gone(x)' <=> Gone(x)
    BY <1>2 DEF Gone, At
  <2>2. CASE x = c
    BY <1>1, <1>2, <1>3, <2>1, <2>2 DEF HubInv, Agreement
  <2>3. CASE x # c
    BY <1>2, <1>3, <1>4, <2>1, <2>3 DEF HubInv, Agreement
  <2> QED
    BY <2>2, <2>3
<1> QED
  BY <1>6, <1>7, <1>8, <1>9, <1>10 DEF HubInv

LEMMA StepTick ==
    ASSUME HubInv, Tick
    PROVE  HubInv'
<1> DEFINE left == {j \in Job : j.sym \in Books /\ j.client \in subscribers[j.sym]}
           r == [run EXCEPT !.pc = "update", !.left = left]
<1>1. /\ ~panicked /\ run.pc = "select"
      /\ UNCHANGED <<clients, subscribers, symbols, buffer, closed, panicked, dropped, reader,
                     writer, publisher>>
      /\ run' = r
  BY DEF Tick, subscriptions, channels
<1>2. /\ left \in SUBSET Job
      /\ \A j \in left : /\ j.client \in Clients /\ j.sym \in Symbols
                         /\ j.client \in subscribers[j.sym]
  BY DEF Job
<1> HIDE DEF left
<1>3. r \in RunState /\ r.pc = "update" /\ r.left = left
  BY <1>2 DEF HubInv, TypeOK, RunState
<1> HIDE DEF r
<1>4. \A x \in Clients : ~BeingRemoved(x) /\ ~BeingRemoved(x)'
  BY <1>1, <1>3 DEF BeingRemoved
<1>5. TypeOK'
  BY <1>1, <1>3 DEF HubInv, TypeOK
<1>6. DropsAreKnown' /\ DropsInSend' /\ ClientsAreOpen' /\ PanicsOnlyAfterDrop'
  BY <1>1 DEF HubInv, DropsAreKnown, DropsInSend, ClientsAreOpen, PanicsOnlyAfterDrop, BeingDropped
<1>7. Registered' /\ ClosedIsDroppedOrGone' /\ WorkIsAnUpdate' /\ RemovesTheGone'
  BY <1>1, <1>3 DEF HubInv, Registered, ClosedIsDroppedOrGone, WorkIsAnUpdate,
                    RemovesTheGone, New, Gone, At
<1>8. Agreement'
  BY <1>1, <1>4 DEF HubInv, Agreement, Gone, At
<1>9. UpdatesReachOpen'
  <2>1. \A j \in left : j.client \in closed => j.client \in dropped
    BY <1>2, <1>4 DEF HubInv, ClosedIsDroppedOrGone, Agreement
  <2> QED
    BY <1>1, <1>3, <2>1 DEF UpdatesReachOpen
<1>10. NewcomersAreUnknown'
  <2>1. \A x \in Clients : New(x) => \A j \in left : j.client # x
    BY <1>2 DEF HubInv, NewcomersAreUnknown
  <2> QED
    BY <1>1, <1>3, <2>1 DEF HubInv, NewcomersAreUnknown, New, At
<1> QED
  BY <1>5, <1>6, <1>7, <1>8, <1>9, <1>10 DEF HubInv

LEMMA StepUpdate ==
    ASSUME HubInv, NEW j \in Job, Update(j)
    PROVE  HubInv'
<1> DEFINE c == j.client
           r == [run EXCEPT !.left = run.left \ {j}, !.sym = j.sym]
<1>1. /\ ~panicked /\ run.pc = "update" /\ j \in run.left
      /\ UNCHANGED <<subscribers, symbols, reader, writer, publisher>>
      /\ run' = r
  BY DEF Update, IsNext, subscriptions
<1>2. c \in Clients /\ j.sym \in Symbols
  BY DEF Job
<1>3. r \in RunState /\ r.pc = "update" /\ r.client = run.client /\ r.left = run.left \ {j}
  BY <1>1, <1>2 DEF HubInv, TypeOK, RunState
<1>4. ~New(c) /\ (c \in closed => c \in dropped)
  BY <1>1, <1>2 DEF HubInv, NewcomersAreUnknown, UpdatesReachOpen
<1>5. \/ Deliver(c) /\ clients' = clients
      \/ SendOnClosed(c) /\ clients' = clients
      \/ CloseSlow(c) /\ clients' = clients \ {c}
  BY DEF Update
<1> HIDE DEF r, c
<1>6. CASE SendOnClosed(c) /\ clients' = clients
  <2>1. panicked' = TRUE /\ UNCHANGED <<buffer, closed, dropped>>
    BY <1>6 DEF SendOnClosed
  <2>2. dropped # {}
    BY <1>4, <1>6 DEF SendOnClosed
  <2> QED
    BY <1>1, <1>3, <1>6, <2>1, <2>2, Panics DEF subscriptions
<1>7. CASE ~(SendOnClosed(c) /\ clients' = clients)
  <2>1. /\ panicked' = panicked
        /\ \/ clients' = clients /\ closed' = closed /\ dropped' = dropped
           \/ clients' = clients \ {c} /\ closed' = closed \cup {c} /\ dropped' = dropped \cup {c}
        /\ buffer' \in [Clients -> 0 .. BufferSize]
    BY <1>2, <1>5, <1>7, DeliverMoves DEF CloseSlow, HubInv, TypeOK
  <2>2. TypeOK'
    BY <1>1, <1>2, <1>3, <2>1 DEF HubInv, TypeOK
  <2>3. DropsAreKnown' /\ DropsInSend' /\ ClientsAreOpen' /\ PanicsOnlyAfterDrop'
    BY <1>1, <2>1 DEF HubInv, DropsAreKnown, DropsInSend, ClientsAreOpen, PanicsOnlyAfterDrop,
                      BeingDropped
  <2>4. Registered' /\ ClosedIsDroppedOrGone' /\ WorkIsAnUpdate' /\ RemovesTheGone'
    BY <1>1, <1>3, <2>1 DEF HubInv, Registered, ClosedIsDroppedOrGone, WorkIsAnUpdate,
                            RemovesTheGone, New, Gone, At
  <2>5. UpdatesReachOpen'
    BY <1>1, <1>3, <2>1 DEF HubInv, UpdatesReachOpen
  <2>6. NewcomersAreUnknown'
    BY <1>1, <1>3, <1>4, <2>1 DEF HubInv, NewcomersAreUnknown, New, At
  <2>7. Agreement'
    BY <1>1, <1>3, <2>1 DEF HubInv, Agreement, BeingRemoved, Gone, At
  <2> QED
    BY <2>2, <2>3, <2>4, <2>5, <2>6, <2>7 DEF HubInv
<1> QED
  BY <1>6, <1>7

-----------------------------------------------------------------------------
(* BroadcastOrderBookEvent.                                                 *)

LEMMA StepPublish ==
    ASSUME HubInv, NEW p \in Publishers, NEW s \in Symbols, Publish(p, s)
    PROVE  HubInv'
<1> DEFINE r == [publisher[p] EXCEPT !.left = subscribers[s]]
<1>1. /\ ~panicked
      /\ UNCHANGED <<clients, subscribers, symbols, buffer, closed, panicked, dropped, run, reader,
                     writer>>
      /\ publisher' = [publisher EXCEPT ![p] = r]
  BY DEF Publish, subscriptions, channels
<1>2. r \in PublisherState /\ r.left = subscribers[s] /\ r.dropping = publisher[p].dropping
  BY DEF HubInv, TypeOK, PublisherState
<1> HIDE DEF r
<1>3. /\ publisher' \in [Publishers -> PublisherState]
      /\ publisher'[p] = r
      /\ \A x \in Publishers : x # p => publisher'[x] = publisher[x]
  BY <1>1, <1>2, PublisherMoves DEF HubInv
<1>4. TypeOK'
  BY <1>1, <1>3 DEF HubInv, TypeOK
<1>5. \A x \in Publishers : publisher'[x].dropping = publisher[x].dropping
  BY <1>2, <1>3
<1>6. DropsAreKnown' /\ DropsInSend' /\ ClientsAreOpen' /\ PanicsOnlyAfterDrop'
  BY <1>1, <1>5 DEF HubInv, DropsAreKnown, DropsInSend, ClientsAreOpen, PanicsOnlyAfterDrop,
                    BeingDropped
<1>7. /\ Registered' /\ ClosedIsDroppedOrGone' /\ UpdatesReachOpen'
      /\ WorkIsAnUpdate' /\ RemovesTheGone'
  BY <1>1 DEF HubInv, Registered, ClosedIsDroppedOrGone, UpdatesReachOpen, WorkIsAnUpdate,
              RemovesTheGone, New, Gone, At
<1>8. NewcomersAreUnknown'
  BY <1>1, <1>2, <1>3 DEF HubInv, NewcomersAreUnknown, New, At
<1>9. Agreement'
  BY <1>1 DEF HubInv, Agreement, BeingRemoved, Gone, At
<1> QED
  BY <1>4, <1>6, <1>7, <1>8, <1>9 DEF HubInv

LEMMA StepPublishTo ==
    ASSUME HubInv, NEW p \in Publishers, NEW c \in Clients, PublishTo(p, c)
    PROVE  HubInv'
<1>1. /\ ~panicked /\ c \in publisher[p].left /\ publisher[p].dropping = None
      /\ UNCHANGED <<clients, subscribers, symbols, run, reader, writer>>
      /\ publisher[p] \in PublisherState
  BY DEF PublishTo, subscriptions, HubInv, TypeOK
<1>2. ~New(c)
  BY <1>1 DEF HubInv, NewcomersAreUnknown
<1>3. CASE SendOnClosed(c) /\ UNCHANGED publisher
  <2>1. panicked' = TRUE /\ UNCHANGED <<buffer, closed, dropped>>
    BY <1>3 DEF SendOnClosed
  <2> QED
    BY <1>1, <1>3, <2>1, Panics DEF HubInv, TypeOK, subscriptions
<1> DEFINE served == [publisher[p] EXCEPT !.left = publisher[p].left \ {c}]
           closing == [left |-> publisher[p].left \ {c}, dropping |-> c]
<1>4. ASSUME NEW r \in PublisherState,
             publisher' = [publisher EXCEPT ![p] = r],
             r.left = publisher[p].left \ {c},
             panicked' = panicked, buffer' \in [Clients -> 0 .. BufferSize],
             \/ closed' = closed /\ dropped' = dropped /\ r.dropping = None
             \/ closed' = closed \cup {c} /\ dropped' = dropped \cup {c} /\ r.dropping = c
      PROVE  HubInv'
  <2>1. /\ publisher' \in [Publishers -> PublisherState]
        /\ publisher'[p] = r
        /\ \A x \in Publishers : x # p => publisher'[x] = publisher[x]
    BY <1>4, PublisherMoves DEF HubInv
  <2>2. TypeOK'
    BY <1>1, <1>4, <2>1 DEF HubInv, TypeOK
  <2>3. DropsAreKnown' /\ DropsInSend'
    BY <1>1, <1>4, <2>1, HubAssumption DEF HubInv, DropsAreKnown, DropsInSend, BeingDropped
  <2>4. ClientsAreOpen' /\ PanicsOnlyAfterDrop'
    BY <1>1, <1>4, <2>1, HubAssumption
       DEF HubInv, TypeOK, ClientsAreOpen, PanicsOnlyAfterDrop, BeingDropped
  <2>5. /\ Registered' /\ ClosedIsDroppedOrGone' /\ UpdatesReachOpen'
        /\ WorkIsAnUpdate' /\ RemovesTheGone'
    BY <1>1, <1>4 DEF HubInv, Registered, ClosedIsDroppedOrGone, UpdatesReachOpen, WorkIsAnUpdate,
                      RemovesTheGone, New, Gone, At
  <2>6. NewcomersAreUnknown'
    BY <1>1, <1>2, <1>4, <2>1 DEF HubInv, NewcomersAreUnknown, New, At
  <2>7. Agreement'
    BY <1>1, <1>4 DEF HubInv, Agreement, BeingRemoved, Gone, At
  <2> QED
    BY <2>2, <2>3, <2>4, <2>5, <2>6, <2>7 DEF HubInv
<1>5. CASE Deliver(c) /\ publisher' = [publisher EXCEPT ![p].left = @ \ {c}]
  <2>1. publisher' = [publisher EXCEPT ![p] = served]
    BY <1>5
  <2>2. served \in PublisherState /\ served.left = publisher[p].left \ {c} /\ served.dropping = None
    BY <1>1 DEF PublisherState
  <2>3. /\ buffer' \in [Clients -> 0 .. BufferSize]
        /\ closed' = closed /\ panicked' = panicked /\ dropped' = dropped
    BY <1>5, DeliverMoves DEF HubInv
  <2> HIDE DEF served
  <2> QED
    BY <1>4, <2>1, <2>2, <2>3
<1>6. CASE /\ CloseSlow(c)
           /\ publisher' = [publisher EXCEPT ![p] = [left |-> @.left \ {c}, dropping |-> c]]
  <2>1. publisher' = [publisher EXCEPT ![p] = closing]
    BY <1>6
  <2>2. closing \in PublisherState /\ closing.left = publisher[p].left \ {c} /\ closing.dropping = c
    BY <1>1 DEF PublisherState
  <2>3. /\ buffer' \in [Clients -> 0 .. BufferSize]
        /\ closed' = closed \cup {c} /\ panicked' = panicked /\ dropped' = dropped \cup {c}
    BY <1>6 DEF CloseSlow, HubInv, TypeOK
  <2> HIDE DEF closing
  <2> QED
    BY <1>4, <2>1, <2>2, <2>3
<1> QED
  BY <1>3, <1>5, <1>6 DEF PublishTo

LEMMA StepPublisherForgets ==
    ASSUME HubInv, NEW p \in Publishers, PublisherForgets(p)
    PROVE  HubInv'
<1> DEFINE c == publisher[p].dropping
           r == [publisher[p] EXCEPT !.dropping = None]
<1>1. /\ UNCHANGED <<subscribers, symbols, buffer, closed, panicked, dropped, run, reader, writer>>
      /\ clients' = clients \ {c} /\ c # None
      /\ publisher' = [publisher EXCEPT ![p] = r]
  BY DEF PublisherForgets, subscriptions, channels
<1>2. /\ r \in PublisherState /\ r.left = publisher[p].left /\ r.dropping = None
      /\ c \in Clients /\ c \in dropped
  BY <1>1 DEF HubInv, TypeOK, PublisherState, DropsAreKnown, BeingDropped
<1> HIDE DEF r
<1>3. /\ publisher' \in [Publishers -> PublisherState]
      /\ publisher'[p] = r
      /\ \A x \in Publishers : x # p => publisher'[x] = publisher[x]
  BY <1>1, <1>2, PublisherMoves DEF HubInv
<1>4. TypeOK'
  BY <1>1, <1>3 DEF HubInv, TypeOK
<1>5. DropsAreKnown' /\ DropsInSend' /\ PanicsOnlyAfterDrop'
  BY <1>1, <1>2, <1>3, HubAssumption
     DEF HubInv, DropsAreKnown, DropsInSend, PanicsOnlyAfterDrop, BeingDropped
<1>6. ClientsAreOpen'
  BY <1>1, <1>2, <1>3 DEF HubInv, TypeOK, ClientsAreOpen, BeingDropped
<1> HIDE DEF c
<1>7. /\ Registered' /\ ClosedIsDroppedOrGone' /\ UpdatesReachOpen'
      /\ WorkIsAnUpdate' /\ RemovesTheGone'
  BY <1>1, <1>2 DEF HubInv, Registered, ClosedIsDroppedOrGone, UpdatesReachOpen, WorkIsAnUpdate,
                    RemovesTheGone, New, Gone, At
<1>8. NewcomersAreUnknown'
  BY <1>1, <1>2, <1>3 DEF HubInv, NewcomersAreUnknown, New, At
<1>9. Agreement'
  BY <1>1 DEF HubInv, Agreement, BeingRemoved, Gone, At
<1> QED
  BY <1>4, <1>5, <1>6, <1>7, <1>8, <1>9 DEF HubInv

-----------------------------------------------------------------------------
LEMMA InitHub == Init => HubInv
<1> SUFFICES ASSUME Init PROVE HubInv
  OBVIOUS
<1>1. TypeOK
  <2>1. NoJob \in RunState /\ 0 \in 0 .. BufferSize
    BY HubAssumption DEF NoJob, RunState
  <2>2. reader \in [Clients -> ReaderState] /\ publisher \in [Publishers -> PublisherState]
    BY DEF Init, ReaderState, ReaderPoints, PublisherState
  <2> QED
    BY <2>1, <2>2 DEF Init, TypeOK
<1>2. DropsAreKnown /\ DropsInSend /\ ClientsAreOpen /\ PanicsOnlyAfterDrop
  BY HubAssumption DEF Init, DropsAreKnown, DropsInSend, ClientsAreOpen, PanicsOnlyAfterDrop,
                       BeingDropped
<1>3. Registered /\ ClosedIsDroppedOrGone /\ UpdatesReachOpen /\ WorkIsAnUpdate /\ RemovesTheGone
  BY DEF Init, Registered, ClosedIsDroppedOrGone, UpdatesReachOpen, WorkIsAnUpdate,
         RemovesTheGone, NoJob, New, Gone, At
<1>4. NewcomersAreUnknown /\ Agreement
  BY DEF Init, NewcomersAreUnknown, Agreement, BeingRemoved, NoJob, New, Gone, At
<1> QED
  BY <1>1, <1>2, <1>3, <1>4 DEF HubInv

LEMMA Stutter == ASSUME HubInv, UNCHANGED vars PROVE HubInv'
<1>1. SamePhase
  BY DEF vars, SamePhase, New, Gone, At, HubInv, DropsInSend
<1> QED
  BY <1>1, QuietStep DEF vars, subscriptions, HubInv, TypeOK

LEMMA StepHub == HubInv /\ [Next]_vars => HubInv'
<1> SUFFICES ASSUME HubInv, [Next]_vars PROVE HubInv'
  OBVIOUS
<1>1. CASE HubStep \/ Tick \/ Stop
  BY <1>1, StepLoop, StepRemoveSubscriptions, StepUpdate, StepTick DEF HubStep
<1>2. ASSUME NEW c \in Clients, Handle(c)
      PROVE  HubInv'
  BY <1>2, StepSubscription, StepRequest, StepSend, StepSendTimeout, StepSendPanics, StepForget
     DEF Handle
<1>3. ASSUME NEW c \in Clients,
             \/ Connect(c) \/ Register(c) \/ Hangup(c) \/ Unregister(c)
             \/ Subscribe(c) \/ Unsubscribe(c) \/ OtherRequest(c)
             \/ Write(c) \/ WriteFails(c) \/ WriterEnds(c)
      PROVE  HubInv'
  BY <1>3, StepConnect, StepRegister, StepUnregister, StepRequest, StepWrite
     DEF Subscribe, Unsubscribe, OtherRequest
<1>4. ASSUME NEW p \in Publishers,
             \/ \E s \in Symbols : Publish(p, s)
             \/ \E c \in Clients : PublishTo(p, c)
             \/ PublisherForgets(p)
      PROVE  HubInv'
  BY <1>4, StepPublish, StepPublishTo, StepPublisherForgets
<1>5. CASE UNCHANGED vars
  BY <1>5, Stutter
<1> QED
  BY <1>1, <1>2, <1>3, <1>4, <1>5 DEF Next

LEMMA HubInvariant == Spec => []HubInv
BY InitHub, StepHub, PTL DEF Spec

\* Every variable of the hub keeps its type, and no send buffer holds more
\* than it was made for, whoever connects, asks, publishes and hangs up.
THEOREM HubType == Spec => []TypeOK
<1>1. HubInv => TypeOK
  BY DEF HubInv
<1> QED
  BY <1>1, HubInvariant, PTL

\* The subscriptions the hub keeps by symbol and those the clients keep
\* agree, and a client that left in peace is subscribed to nothing.
THEOREM SubscriptionsAgreeAlways == Spec => []SubscriptionsAgree
<1>1. HubInv => SubscriptionsAgree
  BY DEF HubInv, Agreement, SubscriptionsAgree, Gone
<1> QED
  BY <1>1, HubInvariant, PTL

\* The channel of a client in the map is open, but while the one who closed
\* it is about to take the client out.
THEOREM RegisteredClientsAreOpen == Spec => []ClientsAreOpen
<1>1. HubInv => ClientsAreOpen
  BY DEF HubInv
<1> QED
  BY <1>1, HubInvariant, PTL

\* Without a client that was too slow, and without a publisher at work, the
\* hub does not panic.
THEOREM PanicNeedsDrop == Spec => []PanicsOnlyAfterDrop
<1>1. HubInv => PanicsOnlyAfterDrop
  BY DEF HubInv
<1> QED
  BY <1>1, HubInvariant, PTL
=============================================================================
