------------------------------ MODULE Notices ------------------------------
(***************************************************************************)
(* Live delivery of one user's notifications to his open socket.           *)
(*                                                                         *)
(* A notification is a row, written in the transaction of its event;       *)
(* Postgres wakes the process's listener at the commit.  For each signal a *)
(* task looks who is online, reads the row and sends it.  Signals are lost *)
(* while the listener has no connection; then it asks every socket to      *)
(* synchronise.  The socket is greeted first and registered after that.    *)
(***************************************************************************)
EXTENDS Naturals, FiniteSets, FiniteSetsExt

CONSTANTS
  LastNote,       \* notifications, numbered as their rows are: a bound
  SyncPage,       \* rows in an answer to a sync
  Breaks,         \* how often a connection breaks: a bound
  NoticeScenarios \* what a behaviour exercises: sets of NoticeTopics

(* Transactions rolled back; the listener's connection lost; the user's    *)
(* socket lost; rows read elsewhere; a socket that takes too long; the     *)
(* listener's first connection is late.                                    *)
NoticeTopics == {"rollback", "listener", "socket", "read", "slow", "start"}

Notes == 1..LastNote

ASSUME NoticesAssumption ==
  /\ LastNote \in Nat /\ Breaks \in Nat
  /\ SyncPage \in Nat \ {0}
  /\ NoticeScenarios \subseteq SUBSET NoticeTopics

VARIABLES
  tests,      \* one of NoticeScenarios
  row,        \* row[n]: whether notification n is written, and committed
  seenRows,   \* rows with read_at
  line,       \* the listener's connection
  sending,    \* sending[n]: how far the task for the signal of n is
  socket,     \* the endpoint of the user's socket
  registered, \* whether the registry has the socket
  known,      \* what the client has got
  asks,       \* whether the client's sync is under way
  breaks      \* how many connections broke

noticeVars == <<tests, row, seenRows, line, sending, socket, registered, known, asks, breaks>>

Tests(topic) == topic \in tests

Kept == {n \in Notes : row[n] = "kept"}

(* The client's cursor: the newest it has got.                             *)
Cursor == IF known = {} THEN 0 ELSE Max(known)
-----------------------------------------------------------------------------
(* Numbers are given when rows are inserted; commits come in any order.    *)
WriteRow(n) ==
  /\ row[n] = "none" /\ \A k \in 1..(n - 1) : row[k] # "none"
  /\ row' = [row EXCEPT ![n] = "written"]
  /\ UNCHANGED <<tests, seenRows, line, sending, socket, registered, known, asks, breaks>>

(* The signal comes with the commit, to a listener that listens.           *)
Signal(n) ==
  sending' = [sending EXCEPT ![n] = IF line \in {"up", "back"} THEN "asked" ELSE @]

CommitRow(n) ==
  /\ row[n] = "written"
  /\ row' = [row EXCEPT ![n] = "kept"]
  /\ Signal(n)
  /\ UNCHANGED <<tests, seenRows, line, socket, registered, known, asks, breaks>>

RollBack(n) ==
  /\ Tests("rollback") /\ row[n] = "written"
  /\ row' = [row EXCEPT ![n] = "undone"]
  /\ UNCHANGED <<tests, seenRows, line, sending, socket, registered, known, asks, breaks>>

(* mark_read, in another window of his.                                    *)
MarkRead(n) ==
  /\ Tests("read") /\ n \in Kept \ seenRows
  /\ seenRows' = seenRows \cup {n}
  /\ UNCHANGED <<tests, row, line, sending, socket, registered, known, asks, breaks>>
-----------------------------------------------------------------------------
(* The listener: it subscribes, then tells the sockets to synchronise      *)
(* unless this was its first connection; a probe finds a dead connection.  *)
LoseLine ==
  /\ Tests("listener") /\ breaks < Breaks /\ line \in {"up", "back"}
  /\ breaks' = breaks + 1
  /\ line' = "lost"
  /\ UNCHANGED <<tests, row, seenRows, sending, socket, registered, known, asks>>

Subscribe ==
  /\ line \in {"lost", "first"}
  /\ line' = IF line = "first" THEN "up" ELSE "back"
  /\ UNCHANGED <<tests, row, seenRows, sending, socket, registered, known, asks, breaks>>

Resync ==
  /\ line = "back"
  /\ line' = "up"
  /\ asks' = (asks \/ (registered /\ socket = "open"))
  /\ UNCHANGED <<tests, row, seenRows, sending, socket, registered, known, breaks>>

(* deliver: who is online is read first, the row after that.               *)
LookOnline(n) ==
  /\ sending[n] = "asked"
  /\ sending' = [sending EXCEPT ![n] = IF registered THEN "online" ELSE "none"]
  /\ UNCHANGED <<tests, row, seenRows, line, socket, registered, known, asks, breaks>>

(* send_to_user: what cannot be sent in time is taken for dead.            *)
SendRow(n) ==
  /\ sending[n] = "online"
  /\ sending' = [sending EXCEPT ![n] = "none"]
  /\ \/ /\ socket = "open" \/ ~registered
        /\ known' = IF registered THEN known \cup {n} ELSE known
        /\ UNCHANGED registered
     \/ /\ registered /\ (socket = "gone" \/ Tests("slow"))
        /\ registered' = FALSE
        /\ UNCHANGED known
  /\ UNCHANGED <<tests, row, seenRows, line, socket, asks, breaks>>
-----------------------------------------------------------------------------
(* The endpoint: accept, hello, add, and then whatever the client asks.    *)
AcceptSocket ==
  /\ socket = "none"
  /\ socket' = "accepted"
  /\ UNCHANGED <<tests, row, seenRows, line, sending, registered, known, asks, breaks>>

(* The client asks for a sync as soon as it is greeted.                    *)
Greet ==
  /\ socket = "accepted"
  /\ socket' = "greeted"
  /\ asks' = TRUE
  /\ UNCHANGED <<tests, row, seenRows, line, sending, registered, known, breaks>>

Register ==
  /\ socket = "greeted"
  /\ socket' = "open"
  /\ registered' = TRUE
  /\ UNCHANGED <<tests, row, seenRows, line, sending, known, asks, breaks>>

(* Mutant: only what is newer than the cursor.                             *)
SyncNewer == {n \in Kept : n > Cursor}

(* Everything unread and everything newer than the cursor.                 *)
SyncRows == {n \in Kept : n \notin seenRows \/ n > Cursor}

(* The oldest first, as many as a page has.                                *)
Page(rows) == {n \in rows : Cardinality({k \in rows : k < n}) < SyncPage}

Answer ==
  /\ socket = "open" /\ asks
  /\ asks' = FALSE
  /\ known' = known \cup Page(SyncRows)
  /\ UNCHANGED <<tests, row, seenRows, line, sending, socket, registered, breaks>>

(* The connection breaks; the endpoint finds out and leaves the registry.  *)
Break ==
  /\ Tests("socket") /\ breaks < Breaks /\ socket \in {"accepted", "greeted", "open"}
  /\ breaks' = breaks + 1
  /\ socket' = "gone"
  /\ asks' = FALSE
  /\ UNCHANGED <<tests, row, seenRows, line, sending, registered, known>>

Remove ==
  /\ socket = "gone"
  /\ socket' = "none"
  /\ registered' = FALSE
  /\ UNCHANGED <<tests, row, seenRows, line, sending, known, asks, breaks>>
-----------------------------------------------------------------------------
NoticesInit ==
  /\ tests \in NoticeScenarios
  /\ row = [n \in Notes |-> "none"]
  /\ seenRows = {}
  /\ line = IF Tests("start") THEN "first" ELSE "up"
  /\ sending = [n \in Notes |-> "none"]
  /\ socket = "none" /\ registered = FALSE
  /\ known = {} /\ asks = FALSE
  /\ breaks = 0

Serve ==
  \/ Subscribe \/ Resync
  \/ (\E n \in Notes : LookOnline(n) \/ SendRow(n))
  \/ Greet \/ Register \/ Answer \/ Remove

NoticesNext ==
  \/ Serve
  \/ (\E n \in Notes : WriteRow(n) \/ CommitRow(n) \/ RollBack(n) \/ MarkRead(n))
  \/ LoseLine \/ AcceptSocket \/ Break

NoticesSpec == NoticesInit /\ [][NoticesNext]_noticeVars

(* Tasks of the process's loop run; the listener reconnects for ever.      *)
NoticesFairness == WF_noticeVars(Serve)
-----------------------------------------------------------------------------
(* A sync, if it comes now, does not end before it gets to n.              *)
WithinPage(n) == Cardinality({k \in SyncRows : k < n}) < SyncPage

(* Whoever stays connected learns of every committed notification he has   *)
(* not read: though it was committed while he was greeted, or out of       *)
(* order, or while the listener had lost its connection.  Except for a     *)
(* socket that was slow and is open but forgotten (connection_storage.py:33), *)
(* for what was committed before the listener first subscribed, which is   *)
(* followed by no synchronisation (listener.py:70), and for what is behind *)
(* a whole page of older rows: every sync sends the same oldest ones, read *)
(* or not taken from them (queries.py:69, router.py:148).                  *)
EveryoneLearns ==
  \A n \in Notes :
    []WithinPage(n) =>
      []<>(n \in Kept /\ socket = "open" /\ tests \cap {"slow", "start"} = {}
           => n \in known \cup seenRows)
=============================================================================
