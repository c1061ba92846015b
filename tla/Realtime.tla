------------------------------ MODULE Realtime ------------------------------
(***************************************************************************)
(* The events of one group: publishers number them, journal them and send  *)
(* them, in three steps; a client that lost its connection comes back with *)
(* the last number it received and asks for what follows.                  *)
(*                                                                         *)
(* The number comes from a counter of the cache that is given 900 seconds  *)
(* at its creation and none at its increments: it expires whatever happens *)
(* on the group, and the numbers start again.                              *)
(***************************************************************************)
EXTENDS Integers, Sequences, FiniteSets, SequencesExt, FiniteSetsExt

CONSTANTS
  Workers,         \* how many publish; one that dies publishes no more
  BacklogSize,     \* BACKLOG_SIZE
  MaxEvents, MaxCuts, MaxExpiries, MaxPublishersLost   \* bounds on what happens

ASSUME RealtimeAssumption ==
  /\ Workers \in Nat /\ BacklogSize \in Nat /\ Workers < BacklogSize
  /\ MaxEvents \in Nat /\ MaxCuts \in Nat /\ MaxExpiries \in Nat
  /\ MaxPublishersLost \in Nat

Seqs == 1..MaxEvents

VARIABLES
  counter,     \* realtime:<group>:seq, 0 when the cache does not hold it
  journal,     \* realtime:<group>:event:<seq>: the event under each number, or 0
  publishing,  \* the publications under way, or left by a worker that died
  event,       \* history: the number each published event was given
  owed,        \* history: events sent since the client received its first
  client,      \* where the connection stands
  lastSeq,     \* the number the client received last, NoSeq before the first
  inbox,       \* messages of the group waiting for the consumer
  received,    \* events the client has
  forgiven,    \* events the client was told of by realtime.gap
  cuts, expiries,
  overtaken    \* history: an event was sent, or replayed, before one numbered lower

realtimeVars == <<counter, journal, publishing, event, owed, client, lastSeq, inbox,
                  received, forgiven, cuts, expiries, overtaken>>
log == <<counter, journal, expiries>>
connection == <<client, lastSeq, inbox, received, forgiven, cuts>>

NoSeq == -1
Away == [at |-> "away", upTo |-> 0]

RealtimeInit ==
  /\ counter = 0 /\ journal = [n \in Seqs |-> 0]
  /\ publishing = {}
  /\ event = <<>> /\ owed = {}
  /\ client = Away /\ lastSeq = NoSeq /\ inbox = <<>>
  /\ received = {} /\ forgiven = {}
  /\ cuts = 0 /\ expiries = 0 /\ overtaken = FALSE

-----------------------------------------------------------------------------
(* publish.  The counter is incremented, or created again at 1.            *)
NumberEvent ==
  /\ Cardinality(publishing) < Workers /\ Len(event) < MaxEvents
  /\ counter' = counter + 1
  /\ event' = Append(event, counter + 1)
  /\ publishing' = publishing \cup
       {[at |-> "numbered", seq |-> counter + 1, id |-> Len(event) + 1]}
  /\ UNCHANGED <<journal, expiries, owed, connection, overtaken>>

Becomes(p, at) == publishing' = (publishing \ {p}) \cup {[p EXCEPT !.at = at]}

JournalEvent(p) ==
  /\ p.at = "numbered" /\ Becomes(p, "journaled")
  /\ journal' = [journal EXCEPT ![p.seq] = p.id]
  /\ UNCHANGED <<counter, expiries, event, owed, connection, overtaken>>

UnderWay == {p \in publishing : p.at # "dead"}
Overtakes(p) == \E q \in UnderWay : q.id < p.id

Message(p) == [seq |-> p.seq, id |-> p.id]
SendEvent(p) ==
  /\ p.at = "journaled"
  /\ owed' = IF lastSeq = NoSeq THEN owed ELSE owed \cup {p.id}
  /\ inbox' = IF client = Away THEN inbox ELSE Append(inbox, Message(p))
  /\ overtaken' = (overtaken \/ Overtakes(p))
  /\ publishing' = publishing \ {p}
  /\ UNCHANGED <<log, event, client, lastSeq, received, forgiven, cuts>>

PublisherDies(p) ==
  /\ p.at # "dead" /\ Becomes(p, "dead")
  /\ Cardinality(publishing \ UnderWay) < MaxPublishersLost
  /\ UNCHANGED <<log, event, owed, connection, overtaken>>

(* 900 seconds after its creation; what it numbered lives longer.  Bound:  *)
(* it is explored on a group that has no client yet, and gets none.        *)
WithoutClient == client = Away /\ lastSeq = NoSeq
CounterExpires ==
  /\ counter > 0 /\ expiries < MaxExpiries /\ WithoutClient
  /\ counter' = 0 /\ expiries' = expiries + 1
  /\ UNCHANGED <<journal, publishing, event, owed, connection, overtaken>>

-----------------------------------------------------------------------------
(* The consumer joins the group, then replays if the client has a number;  *)
(* what the group sends in the meantime waits behind the replay.           *)
Connect ==
  /\ client = Away /\ expiries = 0
  /\ client' = IF lastSeq = NoSeq THEN [at |-> "live", upTo |-> 0]
               ELSE [at |-> "joined", upTo |-> 0]
  /\ UNCHANGED <<log, publishing, event, owed, lastSeq, inbox, received, forgiven, cuts, overtaken>>

ReadCounter ==
  /\ client.at = "joined"
  /\ client' = [at |-> "replaying", upTo |-> counter]
  /\ UNCHANGED <<log, publishing, event, owed, lastSeq, inbox, received, forgiven, cuts, overtaken>>

(* replay: the numbers after since, within the backlog, that the cache has.*)
Window == {n \in Seqs : n > lastSeq /\ n > client.upTo - BacklogSize /\ n <= client.upTo}
Missed == {n \in Window : journal[n] # 0}

AnnouncesNothing == {}                           \* mutant: no realtime.gap
Announced == {id \in 1..Len(event) :
  Missed # {} /\ lastSeq < event[id] /\ event[id] < Min(Missed)}

(* Another publisher still holds a number lower than one that is replayed. *)
JumpsOver == \E q \in publishing, n \in Missed : q.at = "numbered" /\ q.seq < n

CatchUp ==
  /\ client.at = "replaying"
  /\ client' = [at |-> "live", upTo |-> 0]
  /\ received' = received \cup {journal[n] : n \in Missed}
  /\ forgiven' = forgiven \cup Announced
  /\ lastSeq' = IF Missed = {} THEN lastSeq ELSE Max(Missed)
  /\ overtaken' = (overtaken \/ JumpsOver)
  /\ UNCHANGED <<log, publishing, event, owed, inbox, cuts>>

(* _onData: the last number received, be it lower than the one before.     *)
Relay ==
  /\ client.at = "live" /\ inbox # <<>>
  /\ received' = received \cup {Head(inbox).id}
  /\ lastSeq' = Head(inbox).seq
  /\ inbox' = Tail(inbox)
  /\ UNCHANGED <<log, publishing, event, owed, client, forgiven, cuts, overtaken>>

(* Only the cuts of a client that has a number to come back with count.    *)
ConnectionCut ==
  /\ client # Away /\ cuts < MaxCuts
  /\ client' = Away /\ inbox' = <<>>
  /\ cuts' = IF lastSeq = NoSeq THEN cuts ELSE cuts + 1
  /\ UNCHANGED <<log, publishing, event, owed, lastSeq, received, forgiven, overtaken>>

-----------------------------------------------------------------------------
RealtimeNext ==
  \/ NumberEvent
  \/ \E p \in publishing : JournalEvent(p) \/ SendEvent(p) \/ PublisherDies(p)
  \/ CounterExpires
  \/ Connect \/ ReadCounter \/ CatchUp \/ Relay \/ ConnectionCut

RealtimeSpec == RealtimeInit /\ [][RealtimeNext]_realtimeVars

-----------------------------------------------------------------------------
RealtimeTypeOK ==
  /\ counter \in 0..MaxEvents /\ journal \in [Seqs -> 0..MaxEvents]
  /\ publishing \subseteq [at : {"numbered", "journaled", "dead"}, seq : Seqs, id : Seqs]
  /\ event \in Seq(Seqs) /\ owed \subseteq Seqs
  /\ client \in [at : {"away", "joined", "replaying", "live"}, upTo : 0..MaxEvents]
  /\ lastSeq \in -1..MaxEvents /\ inbox \in Seq([seq : Seqs, id : Seqs])
  /\ received \subseteq Seqs /\ forgiven \subseteq Seqs
  /\ cuts \in 0..MaxCuts /\ expiries \in 0..MaxExpiries /\ overtaken \in BOOLEAN

(* ADR-008.  A client whose connection is cut, before, during and after    *)
(* the replay, misses no event without being told of a gap, whatever       *)
(* publishers die - as long as the counter has not expired, and events     *)
(* were sent and replayed in the order of their numbers.                   *)
Waiting == {m.id : m \in ToSet(inbox)}
NothingLostSilently ==
  client.at = "live" /\ expiries = 0 /\ ~overtaken =>
    owed \subseteq received \cup Waiting \cup forgiven

(* "seq est croissant par groupe et jamais reutilise: c'est le seul        *)
(* element sur lequel un client peut raisonner."                           *)
SeqNeverReused == \A i, j \in DOMAIN event : i < j => event[i] < event[j]
=============================================================================
