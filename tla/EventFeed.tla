------------------------------- MODULE EventFeed -------------------------------
(***************************************************************************)
(* The event feed of the HTTP API: the journal a daemon keeps in memory    *)
(* (api/ApiEventJournal.ts), the stream it serves (#handleEventStream in   *)
(* api/ApiModule.ts), and the client that follows it across broken         *)
(* connections and replaced daemons (happy-agent-client, updates.ts).      *)
(*                                                                         *)
(* A cursor is the position of its event in log, which holds what all      *)
(* daemons ever appended; a daemon's first cursor, with no event of its    *)
(* own, is an Origin there.  So cursors grow from daemon to daemon: they   *)
(* are UUIDv7, and that is the clock's doing (README, section 5).          *)
(* Serving a stream has no await, so it is one step.  A connection keeps   *)
(* what it was given in order, until it breaks: then what was not read is  *)
(* lost.                                                                   *)
(***************************************************************************)
EXTENDS Integers, Sequences

CONSTANTS
    Entry,       \* what may be appended
    Visible,     \* what of it may be shown to this client (visibleTo)
    Origin,      \* marks a daemon's first cursor
    Capacity     \* DEFAULT_API_EVENT_CAPACITY

ASSUME EventFeedAssumption ==
    /\ Visible \subseteq Entry /\ Origin \notin Entry
    /\ Capacity \in Nat \ {0}

VARIABLES
    \* history: every entry, by its cursor
    log,
    \* the daemon and its journal: #originCursor, and the first position of
    \* #events, which end with the log
    daemon, origin, first,
    \* the connection: whether it is open, its hello frame not yet read, and
    \* the cursors of the event frames in flight
    open, hello, wire,
    \* reconnectingUpdates: the accepted cursor (0 is undefined), the daemon
    \* last seen (0 is none), what was yielded last of joining, events, losses
    cursor, daemonId, news

daemonVars == <<daemon, origin, first>>
connectionVars == <<open, hello, wire>>
followerVars == <<cursor, daemonId, news>>
feedVars == <<log, daemonVars, connectionVars, followerVars>>

HelloFrame == [cursor : Nat, gap : BOOLEAN, resumed : BOOLEAN, daemon : Nat]
NoHello == [cursor |-> 0, gap |-> FALSE, resumed |-> FALSE, daemon |-> 0]

FeedInit ==
    /\ log = <<Origin>> /\ daemon = 1 /\ origin = 1 /\ first = 2
    /\ open = FALSE /\ hello = NoHello /\ wire = {}
    /\ cursor = 0 /\ daemonId = 0 /\ news = "none"
-----------------------------------------------------------------------------
(* The journal.                                                             *)

HasCursor(c) == c = origin \/ c \in first..Len(log)
Replay(after) == {p \in first..Len(log) : p > after /\ log[p] \in Visible}

(* append.  The oldest entry leaves a full journal, and is its new origin.  *)
KeepsOrigin(entry) ==
    LET position == Len(log) + 1
    IN  /\ log' = Append(log, entry)
        /\ origin' = origin
        /\ first' = IF position - first = Capacity THEN first + 1 ELSE first
        /\ wire' = IF open /\ entry \in Visible THEN wire \cup {position} ELSE wire
        /\ UNCHANGED <<daemon, open, hello>>

Journal(entry) ==
    LET position == Len(log) + 1
        full == position - first = Capacity
    IN  /\ log' = Append(log, entry)
        /\ origin' = IF full THEN first ELSE origin
        /\ first' = IF full THEN first + 1 ELSE first
        /\ wire' = IF open /\ entry \in Visible THEN wire \cup {position} ELSE wire
        /\ UNCHANGED <<daemon, open, hello>>

(* The stream ends, and the client sees it end. *)
Disconnected == open' = FALSE /\ hello' = NoHello /\ wire' = {}

(* Another daemon takes over, with a journal of its own. *)
NewDaemon ==
    /\ daemon' = daemon + 1
    /\ log' = Append(log, Origin)
    /\ origin' = Len(log) + 1 /\ first' = Len(log) + 2
    /\ Disconnected
-----------------------------------------------------------------------------
(* The stream.                                                              *)

(* #handleEventStream, for a client whose accepted cursor is cursor. *)
Connect ==
    LET gap == cursor # 0 /\ ~HasCursor(cursor)
        resumed == cursor # 0 /\ ~gap
    IN  /\ ~open /\ open' = TRUE
        /\ hello' = [cursor |-> Len(log), gap |-> gap, resumed |-> resumed, daemon |-> daemon]
        /\ wire' = IF resumed THEN Replay(cursor) ELSE {}

(* The connection breaks. *)
Break == open /\ Disconnected

(* The follower is stopped, and started again with the cursor it had. *)
StartAgain == Disconnected /\ daemonId' = 0
-----------------------------------------------------------------------------
(* The client: the next frame.                                              *)

StateLost == hello.gap \/ (cursor # 0 /\ ~hello.resumed)
Replaced == daemonId # 0 /\ daemonId # hello.daemon

AdoptsHead ==
    /\ hello # NoHello
    /\ hello' = NoHello /\ daemonId' = hello.daemon
    /\ cursor' = hello.cursor
    /\ news' = IF StateLost THEN "lost" ELSE IF cursor = 0 THEN "joined" ELSE news

ReadHello ==
    /\ hello # NoHello
    /\ hello' = NoHello /\ daemonId' = hello.daemon
    /\ cursor' = IF cursor = 0 \/ StateLost THEN hello.cursor ELSE cursor
    /\ news' = IF StateLost THEN "lost" ELSE IF cursor = 0 THEN "joined" ELSE news

NextFrame(p) == p \in wire /\ \A q \in wire : p <= q

(* A frame at or before the accepted cursor is skipped. *)
ReadEvent(p) ==
    /\ hello = NoHello /\ NextFrame(p)
    /\ wire' = wire \ {p}
    /\ cursor' = IF p > cursor THEN p ELSE cursor
    /\ news' = IF p > cursor THEN "event" ELSE news
-----------------------------------------------------------------------------
(* The feed by itself, with entries from anywhere.                          *)

FeedNext ==
    \/ \E entry \in Entry : Journal(entry) /\ UNCHANGED followerVars
    \/ NewDaemon /\ UNCHANGED followerVars
    \/ Connect /\ UNCHANGED <<log, daemonVars, followerVars>>
    \/ Break /\ UNCHANGED <<log, daemonVars, followerVars>>
    \/ StartAgain /\ UNCHANGED <<log, daemonVars, cursor, news>>
    \/ ReadHello /\ UNCHANGED <<log, daemonVars, open, wire>>
    \/ \E p \in wire : ReadEvent(p) /\ UNCHANGED <<log, daemonVars, open, hello, daemonId>>

FeedSpec == FeedInit /\ [][FeedNext]_feedVars
-----------------------------------------------------------------------------
(* The journal holds the end of the log, and an open connection owes just   *)
(* what is visible after the cursor it goes on from.                        *)
VisibleAfter(c) == {p \in (c + 1)..Len(log) : log[p] \in Visible}

JournalInv ==
    /\ log \in Seq(Entry \cup {Origin})
    /\ daemon \in Nat /\ daemonId \in Nat
    /\ first \in 2..(Len(log) + 1) /\ origin = first - 1
    /\ \A p \in first..Len(log) : log[p] # Origin

ConnectionInv ==
    /\ open \in BOOLEAN /\ hello \in HelloFrame
    /\ cursor \in 0..Len(log)
    /\ ~open => hello = NoHello /\ wire = {}
    /\ open /\ hello = NoHello => cursor # 0 /\ wire = VisibleAfter(cursor)
    /\ hello # NoHello =>
          /\ hello.cursor \in 1..Len(log) /\ cursor <= hello.cursor
          /\ hello.resumed => cursor # 0 /\ ~hello.gap /\ wire = VisibleAfter(cursor)
          /\ ~hello.resumed =>
                /\ hello.gap <=> cursor # 0
                /\ cursor # hello.cursor
                /\ wire = VisibleAfter(hello.cursor)

FeedInv == JournalInv /\ ConnectionInv

(* The feed keeps the promise of FaithfulFeed: no event of the log is       *)
(* skipped or shown twice, across breaks, evictions and new daemons, unless *)
(* the client is told that state was lost.                                  *)
Promise == INSTANCE FaithfulFeed

FeedIsFaithful == Promise!Spec
=============================================================================
