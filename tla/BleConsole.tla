----------------------------- MODULE BleConsole -----------------------------
(***************************************************************************)
(* The BLE debug console: ble_console.rs brings it up, ble_debug.rs serves *)
(* the centrals from the events of the Bluetooth task, ble_logger.rs and   *)
(* ble_log_queue.rs queue log lines from any task and drain them from the  *)
(* main loop.  Two mutexes guard the two states; drain takes and releases  *)
(* them step by step, which is the interleaving modelled here.             *)
(***************************************************************************)
EXTENDS Integers, Sequences, SequencesExt, FiniteSets

CONSTANTS
    Centrals,      \* the peers that may connect
    QueueCapacity, \* QUEUE_CAPACITY
    LineLen,       \* length of a queued line
    Mtus,          \* the MTUs a central may negotiate
    MaxLines,      \* bound: lines logged
    MaxLinks,      \* bound: connections made
    MaxEvents,     \* bound: events waiting when a connected central acts
    MaxRefused     \* bound: notifications the stack refuses

ASSUME BleAssumption ==
    /\ IsFiniteSet(Centrals) /\ Mtus \subseteq Nat
    /\ QueueCapacity \in Nat \ {0} /\ LineLen \in Nat \ {0}

DefaultMtu == 23

VARIABLES
    console,   \* "off", "up" or "failed": the result of BleConsole::init
    handles,   \* BleState: which of gatt_if, service, log and cccd are known
    conns,     \* BleState.connections, by peer
    events,    \* GAP and GATT server events on their way to the callbacks
    adv,       \* whether the controller advertises
    link,      \* per central: the connection id of its live link, 0 for none
    asked,     \* per central: whether it enabled notifications on that link
    links,     \* connections made
    broken,    \* whether an event carried a failure status or a start was refused
    queue, dropped, attached,  \* LogQueue and LoggerState
    drain,     \* where BleLogger::drain is, and the line it holds
    lineNo,    \* lines logged
    refused,   \* notifications refused
    got        \* per central: the lines that reached it whole

bleState == <<console, handles, conns>>
bleRadio == <<events, adv, link, asked, links, broken>>
bleLog == <<queue, dropped, attached, drain, lineNo, refused, got>>
bleVars == <<bleState, bleRadio, bleLog>>

NoCentral == [id |-> 0, notify |-> FALSE, mtu |-> DefaultMtu]
Resting == [at |-> "idle", line |-> 0]

BleInit ==
    /\ console = "off" /\ handles = {} /\ conns = [c \in Centrals |-> NoCentral]
    /\ events = <<>> /\ adv = FALSE /\ links = 0 /\ broken = FALSE
    /\ link = [c \in Centrals |-> 0] /\ asked = [c \in Centrals |-> FALSE]
    /\ queue = <<>> /\ dropped = 0 /\ attached = FALSE /\ drain = Resting
    /\ lineNo = 0 /\ refused = 0 /\ got = [c \in Centrals |-> <<>>]

-----------------------------------------------------------------------------
(* Bring-up and the event chains                                           *)

\* init: the server is up once register_app was accepted; any earlier failure
\* leaves no console, and nothing tries again.
BringUp ==
    /\ console = "off"
    /\ \/ console' = "up" /\ events' = Append(events, [ev |-> "registered"])
       \/ console' = "failed" /\ UNCHANGED events
    /\ UNCHANGED <<handles, conns, adv, link, asked, links, broken, bleLog>>

\* The next event, with its status a success; what the handler asks of the
\* stack comes back as the events of `more`.
On(name, more) ==
    /\ events # <<>> /\ Head(events).ev = name
    /\ events' = Tail(events) \o more
    /\ UNCHANGED <<console, links, broken, link, asked, bleLog>>

AdvConf == [ev |-> "configured"]

OnServiceRegistered ==
    /\ On("registered", <<AdvConf, [ev |-> "created"]>>)
    /\ handles' = handles \union {"app"} /\ UNCHANGED <<conns, adv>>

OnServiceCreated ==
    /\ On("created", <<[ev |-> "characteristic"]>>)
    /\ handles' = handles \union {"service"} /\ UNCHANGED <<conns, adv>>

OnCharacteristicAdded ==
    /\ On("characteristic", <<[ev |-> "descriptor"]>>)
    /\ handles' = handles \union {"log"} /\ UNCHANGED <<conns, adv>>

OnDescriptorAdded ==
    /\ On("descriptor", <<>>)
    /\ handles' = handles \union {"cccd"} /\ UNCHANGED <<conns, adv>>

\* The advertising data are written: the scan response is next.
OnAdvertisingConfigured ==
    /\ On("configured", <<[ev |-> "scanResponse"]>>) /\ UNCHANGED <<handles, conns, adv>>

\* Both are written: the only point at which advertising is started.  A refused
\* start is printed and forgotten.  (What this handler prints is Boot's
\* AdvertisingLine.)
OnScanResponseConfigured ==
    /\ events # <<>> /\ Head(events).ev = "scanResponse"
    /\ events' = Tail(events)
    /\ \/ adv' = TRUE /\ UNCHANGED broken
       \/ broken' = TRUE /\ UNCHANGED adv
    /\ UNCHANGED <<bleState, link, asked, links, bleLog>>

\* create_conn: a peer found in the list starts over without its subscription.
OnPeerConnected ==
    /\ On("connected", <<AdvConf>>)
    /\ LET e == Head(events) IN conns' = [conns EXCEPT ![e.peer] = [NoCentral EXCEPT !.id = e.id]]
    /\ UNCHANGED <<handles, adv>>

\* delete_conn, by the peer's address.
OnPeerDisconnected ==
    /\ On("disconnected", <<AdvConf>>)
    /\ conns' = [conns EXCEPT ![Head(events).peer] = NoCentral]
    /\ UNCHANGED <<handles, adv>>

ById(id) == {c \in Centrals : conns[c].id = id}

\* handle_write: the subscription of the connection that wrote the CCCD.
OnWrite ==
    /\ On("write", <<>>)
    /\ LET e == Head(events) IN
           conns' = [c \in Centrals |->
                        IF "cccd" \in handles /\ c \in ById(e.id)
                        THEN [conns[c] EXCEPT !.notify = e.on] ELSE conns[c]]
    /\ UNCHANGED <<handles, adv>>

\* register_conn_mtu
OnMtu ==
    /\ On("mtu", <<>>)
    /\ LET e == Head(events) IN
           conns' = [c \in Centrals |->
                        IF c \in ById(e.id) THEN [conns[c] EXCEPT !.mtu = e.mtu] ELSE conns[c]]
    /\ UNCHANGED <<handles, adv>>

\* A failure status ends the chain: check_esp_status prints and returns.
OnFailedStatus ==
    /\ events # <<>>
    /\ Head(events).ev \in {"registered", "created", "characteristic", "descriptor",
                            "configured", "scanResponse"}
    /\ events' = Tail(events) /\ broken' = TRUE
    /\ UNCHANGED <<bleState, adv, link, asked, links, bleLog>>

-----------------------------------------------------------------------------
(* The centrals                                                            *)

Radio == UNCHANGED <<bleState, broken, bleLog>>
Unhurried == Len(events) < MaxEvents

\* A connection ends advertising; its id is the lowest free one.
JoinCentral(c) ==
    /\ adv /\ link[c] = 0 /\ links < MaxLinks
    /\ LET used == {link[d] : d \in Centrals}
           id == CHOOSE i \in 1..Cardinality(Centrals) : i \notin used /\ \A j \in 1..(i - 1) : j \in used
       IN /\ link' = [link EXCEPT ![c] = id]
          /\ events' = Append(events, [ev |-> "connected", peer |-> c, id |-> id])
    /\ adv' = FALSE /\ links' = links + 1 /\ asked' = [asked EXCEPT ![c] = FALSE]
    /\ Radio

LoseCentral(c) ==
    /\ link[c] # 0 /\ Unhurried
    /\ link' = [link EXCEPT ![c] = 0] /\ asked' = [asked EXCEPT ![c] = FALSE]
    /\ events' = Append(events, [ev |-> "disconnected", peer |-> c])
    /\ UNCHANGED <<adv, links>> /\ Radio

Subscribe(c, on) ==
    /\ link[c] # 0 /\ Unhurried /\ "cccd" \in handles /\ asked[c] # on
    /\ asked' = [asked EXCEPT ![c] = on]
    /\ events' = Append(events, [ev |-> "write", id |-> link[c], on |-> on])
    /\ UNCHANGED <<adv, link, links>> /\ Radio

\* A central negotiates its MTU before it subscribes.
Negotiate(c, mtu) ==
    /\ link[c] # 0 /\ Unhurried /\ ~asked[c] /\ conns[c] = [NoCentral EXCEPT !.id = link[c]] /\ mtu # DefaultMtu
    /\ events' = Append(events, [ev |-> "mtu", id |-> link[c], mtu |-> mtu])
    /\ UNCHANGED <<adv, link, asked, links>> /\ Radio

-----------------------------------------------------------------------------
(* The logger                                                              *)

Logs == UNCHANGED <<console, handles, bleRadio>>

\* push_line, from any task: the oldest line makes room and is counted.
PushLine ==
    /\ lineNo < MaxLines
    /\ lineNo' = lineNo + 1
    /\ IF Len(queue) >= QueueCapacity
       THEN queue' = Append(Tail(queue), lineNo') /\ dropped' = dropped + 1
       ELSE queue' = Append(queue, lineNo') /\ UNCHANGED dropped
    /\ UNCHANGED <<attached, drain, refused, got, conns>> /\ Logs

Subscribed == {c \in Centrals : conns[c].notify}

\* drain without a subscriber
DrainNobody ==
    /\ drain.at = "idle" /\ console = "up" /\ Subscribed = {} /\ attached
    /\ attached' = FALSE
    /\ UNCHANGED <<queue, dropped, drain, lineNo, refused, got, conns>> /\ Logs

\* drain with one: the banner goes first, once per attachment.
DrainStart ==
    /\ drain.at = "idle" /\ console = "up" /\ Subscribed # {} /\ (queue # <<>> \/ ~attached)
    /\ drain' = [at |-> IF attached THEN "front" ELSE "banner", line |-> 0]
    /\ attached' = TRUE /\ dropped' = IF attached THEN dropped ELSE 0
    /\ UNCHANGED <<queue, lineNo, refused, got, conns>> /\ Logs

ReadFront ==
    /\ drain.at = "front"
    /\ drain' = IF queue = <<>> THEN Resting ELSE [at |-> "send", line |-> Head(queue)]
    /\ UNCHANGED <<queue, dropped, attached, lineNo, refused, got, conns>> /\ Logs

ChunkLen(mtu) == LET room == mtu - 3 IN IF room < 1 THEN 1 ELSE IF room > 200 THEN 200 ELSE room
Chunks(mtu) == (LineLen + ChunkLen(mtu) - 1) \div ChunkLen(mtu)

\* How many chunks the stack takes from each subscriber's line: all, or those
\* before one it refuses.  A link that is gone refuses at once.
Takes == {k \in [Subscribed -> 0..Chunks(DefaultMtu)] :
            \A c \in Subscribed :
                /\ k[c] <= Chunks(conns[c].mtu)
                /\ link[c] # conns[c].id => k[c] = 0}

Delivered(k) == \E c \in Subscribed : k[c] > 0

\* send_log_bytes: a refused chunk ends that connection's subscription and its
\* line; one chunk taken anywhere counts as delivered.
SendLine ==
    /\ drain.at \in {"send", "banner"}
    /\ \E k \in Takes :
        LET whole == {c \in Subscribed : k[c] = Chunks(conns[c].mtu)}
            alive == {c \in Subscribed \ whole : link[c] = conns[c].id}
        IN /\ refused + Cardinality(alive) <= MaxRefused
           /\ refused' = refused + Cardinality(alive)
           /\ conns' = [c \in Centrals |->
                           IF c \in Subscribed \ whole THEN [conns[c] EXCEPT !.notify = FALSE] ELSE conns[c]]
           /\ IF drain.at = "banner"
              THEN drain' = [at |-> "front", line |-> 0] /\ UNCHANGED got
              ELSE /\ got' = [c \in Centrals |->
                                 IF c \in whole THEN Append(got[c], drain.line) ELSE got[c]]
                   /\ drain' = IF Delivered(k) THEN [at |-> "pop", line |-> drain.line] ELSE Resting
    /\ UNCHANGED <<queue, dropped, attached, lineNo>> /\ Logs

\* pop_front: whatever is in front by now.
Pop ==
    /\ drain.at = "pop"
    /\ queue' = IF queue = <<>> THEN queue ELSE Tail(queue)
    /\ drain' = [at |-> "front", line |-> 0]
    /\ UNCHANGED <<dropped, attached, lineNo, refused, got, conns>> /\ Logs

BleNext ==
    \/ BringUp
    \/ OnServiceRegistered \/ OnServiceCreated \/ OnCharacteristicAdded \/ OnDescriptorAdded
    \/ OnAdvertisingConfigured \/ OnScanResponseConfigured \/ OnFailedStatus
    \/ OnPeerConnected \/ OnPeerDisconnected \/ OnWrite \/ OnMtu
    \/ \E c \in Centrals : \/ JoinCentral(c) \/ LoseCentral(c)
                           \/ \E on \in BOOLEAN : Subscribe(c, on)
                           \/ \E mtu \in Mtus : Negotiate(c, mtu)
    \/ PushLine \/ DrainNobody \/ DrainStart \/ ReadFront \/ SendLine \/ Pop

OnEvent ==
    \/ OnServiceRegistered \/ OnServiceCreated \/ OnCharacteristicAdded \/ OnDescriptorAdded
    \/ OnAdvertisingConfigured \/ OnScanResponseConfigured \/ OnFailedStatus
    \/ OnPeerConnected \/ OnPeerDisconnected \/ OnWrite \/ OnMtu

\* The Bluetooth task delivers its events and the boot goes on.
BleSpec == BleInit /\ [][BleNext]_bleVars /\ WF_bleVars(OnEvent)

-----------------------------------------------------------------------------

\* Every central sees the log in its order, each line at most once, whichever
\* of several subscribers refuse it, drop out or come back.
LinesInOrder == \A c \in Centrals : \A i, j \in 1..Len(got[c]) : i < j => got[c][i] < got[c][j]

\* Once the events of the radio are through, the server's list is the links
\* there are, under their ids, and only links that asked are notified: an id
\* used again or a peer that returns inherits nothing.
SubscriptionsAreTrue ==
    events = <<>> => \A c \in Centrals : conns[c].id = link[c] /\ (conns[c].notify => asked[c])

\* The console as a whole: LinesInOrder and SubscriptionsAreTrue.
ConsoleIsSound == LinesInOrder /\ SubscriptionsAreTrue

\* A console without a central is found again: it comes to advertise, unless
\* a step of the chain failed, which ends it for good.
ConsoleComesBack ==
    (console = "up" /\ \A c \in Centrals : link[c] = 0)
        ~> (adv \/ broken \/ \E c \in Centrals : link[c] # 0)

\* What drain says of a line that failed, "the failed line stays at the front
\* for the next attach/drain", and the banner of lines lost: a line leaves the
\* queue delivered or counted.
FailedLineStays ==
    [][drain.at = "pop" /\ Len(queue') < Len(queue)
         => \E c \in Centrals : Contains(got[c], Head(queue))]_bleVars
=============================================================================
