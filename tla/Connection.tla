----------------------------- MODULE Connection -----------------------------
(***************************************************************************)
(* The on-demand BLE session of a device: GoveeConnection                  *)
(* (transport/connection.py).  Tasks call its public operations; each runs *)
(* under one FIFO lock, brings a link up when there is none, sets a        *)
(* session up on it, talks, and may tear the link down.  The device, the   *)
(* BLE stack and the callers act at the awaits: links drop, disconnect     *)
(* callbacks arrive late, notifications arrive from any link that is still *)
(* up, deadlines and callers cancel the operation.                         *)
(*                                                                         *)
(* The program is one asyncio thread.  "at" is where the lock's holder is: *)
(* the names in Awaits are its await points, the others lie between two    *)
(* awaits, and nothing but the holder moves there (Yielded).               *)
(*                                                                         *)
(* Real time is left out: a timeout may fire at any await it bounds.  The  *)
(* idle timer, the warm window and the heartbeat are in LinkTimers.        *)
(***************************************************************************)
EXTENDS RxBuffer, FiniteSets

CONSTANTS
    Tasks,            \* the callers, one operation each
    Kinds,            \* the operations they may call
    Budgets,          \* the ConnectBudgets they may pass: sets of limits given
    MaxLinks,         \* bound: links establish_connection brings up
    Advertised,       \* the modes an advertisement may hand over
    BgcVersions,      \* the versions a BGC read may return ("v0": 0 or absent)
    HasUnlock,        \* the device has an unlock frame (unlock_frames)
    HasSessionFrame,  \* ... and a session frame (session_frames)
    SessionAck,       \* ... whose ack is waited for (session_ack, a plug's)
    SessionAttempts,  \* SESSION_ATTEMPTS
    WriteAttempts,    \* WRITE_ATTEMPTS
    StreamLen         \* frames of a send_unacked

ASSUME ConnectionAssumption ==
    /\ Kinds \subseteq {"connect", "write", "query", "stream", "once", "disconnect", "close"}
    /\ Budgets \subseteq SUBSET {"attempts", "timeout"}
    /\ {} \in Budgets
    /\ MaxLinks \in Nat
    /\ Advertised \subseteq {"NONE", "AES_RC4_PSK"} /\ Advertised # {}
    /\ BgcVersions \subseteq {"v0", "v1", "v2"}
    /\ HasUnlock \in BOOLEAN /\ HasSessionFrame \in BOOLEAN /\ SessionAck \in BOOLEAN
    /\ SessionAttempts \in Nat \ {0}
    /\ WriteAttempts \in Nat \ {0}
    /\ StreamLen \in Nat \ {0}

VARIABLES
    status,     \* each task's call: its state, then its outcome
    kind,       \* the operation it calls
    budget,     \* the connect limits it passes
    lockQ,      \* _lock: the holder, then the waiters in order
    at,         \* where the holder is ("free": nobody runs)
    op,         \* the holder's local state
    fired,      \* the cancellations that have hit the holder
    client,     \* _client: the number of the current link, 0 for None
    ready,      \* _ready
    key,        \* _session_key: the link whose handshake gave it, 0 for None
    mode,       \* _encryption
    advert,     \* _advert_encryption
    bgc,        \* _bgc_version once _bgc_checked, "unread" before
    rx,         \* _rx
    closed,     \* _closed
    links,      \* _links_opened
    released,   \* _released_at is set
    recorded,   \* _teardowns: the links whose teardown's wait was cut short
    phys,       \* each link as the radio has it
    due,        \* links whose disconnect callback has not run yet
    td,         \* each link's teardown task
    vetted      \* history: the link whose session setup completed last

linkVars == <<client, ready, key, td>>
taskVars == <<status, kind, budget, lockQ>>
setupVars == <<mode, advert, bgc, vetted>>
radioVars == <<links, phys, due>>
miscVars == <<closed, released, recorded>>
vars == <<taskVars, at, op, fired, linkVars, setupVars, rx, radioVars, miscVars>>

LinkNo == 1 .. MaxLinks
Modes == {"NONE", "AES_RC4_PSK", "AES_GCM"}
\* What cancels an operation: the connect limit of its budget, the operation
\* deadline, its caller.
Cancellations == {"limit", "deadline", "cancelled"}
\* What ends an operation: a result, a typed error, the internal _LinkLost, an
\* error of the BLE stack, or a cancellation.
Exceptions == {"ok", "conn", "timeout", "rejected", "notSupported", "auth",
               "lost", "io"} \cup Cancellations
FrameKinds == {"key", "confirm", "reply", "nak", "noise"}
Frames == [kind : FrameKinds, link : LinkNo]

ConnectAwaits == {"establish", "notify", "bgc", "key", "confirm", "setupAck", "setupSent"}
TalkAwaits == {"ack", "collect", "paced"}
Awaits == ConnectAwaits \cup TalkAwaits \cup {"gap", "teardown", "finish"}
\* Between two awaits of the holder ...
Running == {"fresh", "ensure", "connect", "prepare", "mode", "ready", "setup", "attempt",
            "sessionNext", "unwind", "retry", "released", "end"}
\* ... nothing else runs.
Yielded == at \in Awaits \cup {"free"}

Holder == Head(lockQ)

Connected(l) == l # 0 /\ phys[l] = "up"
\* The is_connected property.
IsConnected == Connected(client) /\ ready

NoOp == [sess |-> 1, pass |-> 1, try |-> 1, stage |-> "unlock", exc |-> "ok",
         after |-> "end", waits |-> 0, links0 |-> 0, adv |-> "NONE",
         hsKey |-> 0, sent |-> <<>>, heard |-> 0]

Init ==
    /\ status = [t \in Tasks |-> "new"]
    /\ kind \in [Tasks -> Kinds]
    /\ budget \in [Tasks -> Budgets]
    /\ \A t \in Tasks : kind[t] \notin {"write", "query"} => budget[t] = {}
    /\ lockQ = <<>> /\ at = "free" /\ op = NoOp /\ fired = {}
    /\ client = 0 /\ ready = FALSE /\ key = 0
    /\ td = [l \in LinkNo |-> "none"]
    /\ advert \in Advertised /\ mode = advert /\ bgc = "unread" /\ vetted = 0
    /\ rx = <<>>
    /\ links = 0 /\ phys = [l \in LinkNo |-> "none"] /\ due = {}
    /\ closed = FALSE /\ released = FALSE /\ recorded = {}

-----------------------------------------------------------------------------
(* Building blocks: parts of the holder's synchronous code.                *)

\* Fault: the client is forgotten without being closed.
TearDownForgets(next, e) ==
    /\ ready' = FALSE /\ key' = 0 /\ client' = 0
    /\ op' = [op EXCEPT !.after = next, !.exc = e, !.waits = client, !.hsKey = 0]
    /\ at' = next /\ UNCHANGED td

\* _disconnect_locked up to its wait: the session and the client are
\* forgotten first, then the client is closed by a task of its own.
TearDown(next, e) ==
    /\ ready' = FALSE /\ key' = 0 /\ client' = 0
    /\ op' = [op EXCEPT !.after = next, !.exc = e, !.waits = client, !.hsKey = 0]
    /\ IF client = 0
       THEN at' = next /\ UNCHANGED td
       ELSE at' = "teardown" /\ td' = [td EXCEPT ![client] = "running"]

\* _run's handlers: an error of the BLE stack and the deadline tear the link
\* down; typed errors, _LinkLost and the caller's cancellation do not.
Handle(e) ==
    IF e \in {"deadline", "io"}
    THEN TearDown("end", e)
    ELSE /\ at' = "end"
         /\ op' = [op EXCEPT !.exc = e, !.waits = 0]
         /\ UNCHANGED linkVars

\* The operation's body ends with e; send_once's finally clause tears down.
Leave(e) == IF kind[Holder] = "once" THEN TearDown("released", e) ELSE Handle(e)

\* _connect_locked's except clauses: whatever failed, the client is torn down.
ConnectFails(e) == TearDown("sessionNext", IF e = "io" THEN "conn" ELSE e)

\* A failure once the link is up: the first pass of _write_locked retries.
TalkFails(e) ==
    IF kind[Holder] = "write" /\ op.pass = 1
    THEN TearDown("retry", e)
    ELSE Leave(e)

\* _encrypt and _require_client let a frame through only with a client, and
\* under AES_RC4_PSK only with a session key.
CanSend == client # 0 /\ (mode = "AES_RC4_PSK" => key # 0)

\* _session_mode: the cached BGC verdict, else the advertised mode.
SessionMode(adv) ==
    CASE bgc = "v2" -> "AES_GCM"
      [] bgc = "v1" -> "AES_RC4_PSK"
      [] OTHER -> adv

\* A cancellation landing on an operation already unwinding with another one:
\* the caller's outlives the deadline's, the deadline's the connect limit's.
Stronger(c) ==
    IF c = "cancelled" \/ op.exc \notin Cancellations \/ op.exc = "limit" THEN c ELSE op.exc

-----------------------------------------------------------------------------
(* Callers: the lock, and the start and the end of an operation.           *)

\* A caller calls: it joins the lock's queue.  close() refuses later
\* operations at once, before it waits for the lock.
Call(t) ==
    /\ Yielded
    /\ status[t] = "new"
    /\ status' = [status EXCEPT ![t] = "waiting"]
    /\ lockQ' = Append(lockQ, t)
    /\ closed' = (closed \/ kind[t] = "close")
    /\ UNCHANGED <<kind, budget, at, op, fired, linkVars, setupVars, rx, radioVars, released, recorded>>

\* A caller is cancelled while it waits for the lock.
CancelWaiting(t) ==
    /\ Yielded
    /\ status[t] = "waiting"
    /\ status' = [status EXCEPT ![t] = "raised"]
    /\ \E i \in DOMAIN lockQ : lockQ[i] = t /\ lockQ' = Without(lockQ, i)
    /\ UNCHANGED <<kind, budget, at, op, fired, linkVars, setupVars, rx, radioVars, miscVars>>

\* The first waiter takes the lock.  disconnect() asks keep() under it.
Acquire ==
    /\ at = "free" /\ lockQ # <<>>
    /\ status' = [status EXCEPT ![Holder] = "running"]
    /\ CASE kind[Holder] \in {"disconnect", "close"} ->
              \/ TearDown("end", "ok")
              \/ kind[Holder] = "disconnect" /\ at' = "end" /\ UNCHANGED <<op, linkVars>>
         [] kind[Holder] = "once" ->
              at' = (IF released THEN "gap" ELSE "fresh") /\ UNCHANGED <<op, linkVars>>
         [] OTHER ->
              at' = "ensure" /\ UNCHANGED <<op, linkVars>>
    /\ UNCHANGED <<kind, budget, lockQ, fired, setupVars, rx, radioVars, miscVars>>

\* _run's finally and the release of the lock: the call returns, or raises.
End ==
    /\ at = "end"
    /\ status' = [status EXCEPT ![Holder] = IF op.exc = "ok" THEN "returned" ELSE "raised"]
    /\ lockQ' = Tail(lockQ)
    /\ at' = "free" /\ op' = NoOp /\ fired' = {}
    /\ UNCHANGED <<kind, budget, linkVars, setupVars, rx, radioVars, miscVars>>

-----------------------------------------------------------------------------
(* send_once's own session.                                                *)

GapEnds ==
    /\ at = "gap"
    /\ at' = "fresh"
    /\ UNCHANGED <<taskVars, op, fired, linkVars, setupVars, rx, radioVars, miscVars>>

\* A link still up is dropped first: the frame goes out on a fresh session.
Fresh ==
    /\ at = "fresh"
    /\ IF client = 0
       THEN at' = "ensure" /\ UNCHANGED <<op, linkVars>>
       ELSE TearDown("ensure", "ok")
    /\ UNCHANGED <<taskVars, fired, setupVars, rx, radioVars, miscVars>>

Released ==
    /\ at = "released"
    /\ released' = TRUE
    /\ Handle(op.exc)
    /\ UNCHANGED <<taskVars, fired, setupVars, rx, radioVars, closed, recorded>>

-----------------------------------------------------------------------------
(* The connect phase: _ensure_connected_locked, _open_session_locked,      *)
(* _connect_locked.                                                        *)

\* Fault: a closed connection connects again.
EnsureThoughClosed ==
    /\ at = "ensure"
    /\ IF IsConnected
       THEN at' = "attempt" /\ UNCHANGED <<op, linkVars>>
       ELSE at' = "connect" /\ op' = [op EXCEPT !.sess = 1] /\ UNCHANGED linkVars
    /\ UNCHANGED <<taskVars, fired, setupVars, rx, radioVars, miscVars>>

Ensure ==
    /\ at = "ensure"
    /\ \/ closed /\ Leave("conn")
       \/ /\ ~closed /\ IsConnected
          /\ at' = "attempt"
          /\ UNCHANGED <<op, linkVars>>
       \/ /\ ~closed /\ ~IsConnected
          /\ IF bgc # "unread" /\ SessionMode(advert) = "AES_GCM"
             THEN Leave("notSupported")
             ELSE /\ at' = "connect"
                  /\ op' = [op EXCEPT !.sess = 1]
                  /\ UNCHANGED linkVars
    /\ UNCHANGED <<taskVars, fired, setupVars, rx, radioVars, miscVars>>

Connect ==
    /\ at = "connect"
    /\ at' = IF Connected(client) THEN "prepare" ELSE "establish"
    /\ op' = [op EXCEPT !.links0 = links, !.exc = "ok"]
    /\ UNCHANGED <<taskVars, fired, linkVars, setupVars, rx, radioVars, miscVars>>

\* establish_connection returns a client: the current link from here on.
Established ==
    /\ at = "establish" /\ links < MaxLinks
    /\ links' = links + 1 /\ client' = links + 1
    /\ phys' = [phys EXCEPT ![links + 1] = "up"]
    /\ rx' = <<>>
    /\ at' = "notify"
    /\ UNCHANGED <<taskVars, op, fired, ready, key, td, setupVars, due, miscVars>>

Subscribed ==
    /\ at = "notify"
    /\ at' = "prepare"
    /\ UNCHANGED <<taskVars, op, fired, linkVars, setupVars, rx, radioVars, miscVars>>

\* establish_connection, start_notify or the BGC read fails or times out.
ConnectStepFails ==
    /\ at \in {"establish", "notify", "bgc"}
    /\ \E e \in {"conn", "timeout"} : ConnectFails(e)
    /\ UNCHANGED <<taskVars, fired, setupVars, rx, radioVars, miscVars>>

\* _open_session_locked between two attempts.
SessionNext ==
    /\ at = "sessionNext"
    /\ IF \/ op.exc \in {"notSupported", "auth"}
          \/ "attempts" \in budget[Holder] /\ links = op.links0
          \/ op.sess >= SessionAttempts
       THEN Leave(op.exc)
       ELSE /\ at' = "connect"
            /\ op' = [op EXCEPT !.sess = @ + 1]
            /\ UNCHANGED linkVars
    /\ UNCHANGED <<taskVars, fired, setupVars, rx, radioVars, miscVars>>

\* Fault: the connect limit gives the lock up at once.
LeaveConnectAtOnce(e) == Leave(e)

\* A cancellation leaves _connect_locked: the connect limit's waits for every
\* teardown cut short, any other goes on up.
LeaveConnect(e) ==
    IF e = "limit"
    THEN /\ at' = "finish"
         /\ op' = [op EXCEPT !.exc = e, !.waits = 0]
         /\ UNCHANGED linkVars
    ELSE Leave(e)

Unwind ==
    /\ at = "unwind"
    /\ LeaveConnect(op.exc)
    /\ UNCHANGED <<taskVars, fired, setupVars, rx, radioVars, miscVars>>

\* _finish_teardown has waited for each of them.
Finished ==
    /\ at = "finish"
    /\ \A l \in recorded : td[l] # "running"
    /\ Leave("limit")
    /\ UNCHANGED <<taskVars, fired, setupVars, rx, radioVars, miscVars>>

-----------------------------------------------------------------------------
(* Session setup: _prepare_session, _handshake.                            *)

\* The session is reset, the mode is taken from the advertised mode as it is
\* now, refined by a BGC version already read.
Prepare ==
    /\ at = "prepare"
    /\ rx' = <<>>
    /\ IF client = 0
       THEN ConnectFails("conn") /\ UNCHANGED mode
       ELSE /\ ready' = FALSE /\ key' = 0
            /\ mode' = SessionMode(advert)
            /\ op' = [op EXCEPT !.adv = advert]
            /\ at' = IF bgc = "unread" THEN "bgc" ELSE "mode"
            /\ UNCHANGED <<client, td>>
    /\ UNCHANGED <<taskVars, fired, advert, bgc, vetted, radioVars, miscVars>>

BgcRead ==
    /\ at = "bgc"
    /\ \E v \in BgcVersions : bgc' = v
    /\ at' = "mode"
    /\ UNCHANGED <<taskVars, op, fired, linkVars, mode, advert, vetted, rx, radioVars, miscVars>>

\* The mode is settled; the handshake's first write needs the client.
SettleMode ==
    /\ at = "mode"
    /\ mode' = SessionMode(op.adv)
    /\ CASE mode' = "AES_GCM" -> ConnectFails("notSupported")
         [] mode' = "NONE" -> at' = "ready" /\ UNCHANGED <<op, linkVars>>
         [] OTHER -> IF client = 0
                     THEN ConnectFails("conn")
                     ELSE at' = "key" /\ UNCHANGED <<op, linkVars>>
    /\ UNCHANGED <<taskVars, fired, advert, bgc, vetted, rx, radioVars, miscVars>>

\* _next_rx hands the waiting holder the first queued item.
Receives(pc) == at = pc /\ rx # <<>> /\ rx' = Tail(rx)
Item == Head(rx)

\* A frame the wait is not for is skipped, and the wait goes on.
Skip == UNCHANGED <<at, op, linkVars>>

\* e7 01's reply carries the session key; e7 02 is then written.
KeyReply ==
    /\ Receives("key")
    /\ CASE Item = Lost -> ConnectFails("conn")
         [] Item.kind = "key" ->
              IF client = 0
              THEN ConnectFails("conn")
              ELSE at' = "confirm" /\ op' = [op EXCEPT !.hsKey = Item.link] /\ UNCHANGED linkVars
         [] OTHER -> Skip
    /\ UNCHANGED <<taskVars, fired, setupVars, radioVars, miscVars>>

\* The key is kept once e7 02 is confirmed, or not confirmed in time.
KeepKey ==
    /\ key' = op.hsKey
    /\ at' = "ready"
    /\ op' = [op EXCEPT !.hsKey = 0]
    /\ UNCHANGED <<client, ready, td>>

ConfirmReply ==
    /\ Receives("confirm")
    /\ CASE Item = Lost -> ConnectFails("conn")
         [] Item.kind = "confirm" -> KeepKey
         [] OTHER -> Skip
    /\ UNCHANGED <<taskVars, fired, setupVars, radioVars, miscVars>>

HandshakeTimeout ==
    /\ rx = <<>>
    /\ \/ at = "key" /\ ConnectFails("timeout")
       \/ at = "confirm" /\ KeepKey
    /\ UNCHANGED <<taskVars, fired, setupVars, rx, radioVars, miscVars>>

SessionReady ==
    /\ at = "ready"
    /\ ready' = TRUE
    /\ rx' = <<>>
    /\ at' = "setup"
    /\ op' = [op EXCEPT !.try = 1,
                        !.stage = IF HasUnlock THEN "unlock"
                                  ELSE IF HasSessionFrame THEN "session" ELSE "done"]
    /\ UNCHANGED <<taskVars, fired, client, key, td, setupVars, radioVars, miscVars>>

NextStage ==
    /\ at' = "setup"
    /\ op' = [op EXCEPT !.try = 1,
                        !.stage = IF @ = "unlock" /\ HasSessionFrame THEN "session" ELSE "done"]
    /\ UNCHANGED linkVars

Unacked == op.stage = "session" /\ ~SessionAck

\* A frame whose ack is waited for drains the queue first.
SetupSend ==
    /\ at = "setup" /\ op.stage # "done"
    /\ rx' = IF Unacked THEN rx ELSE <<>>
    /\ IF CanSend
       THEN at' = (IF Unacked THEN "setupSent" ELSE "setupAck") /\ UNCHANGED <<op, linkVars>>
       ELSE ConnectFails("conn")
    /\ UNCHANGED <<taskVars, fired, setupVars, radioVars, miscVars>>

\* The write of a frame without an ack returns.
SetupSent ==
    /\ at = "setupSent"
    /\ NextStage
    /\ UNCHANGED <<taskVars, fired, setupVars, rx, radioVars, miscVars>>

SetupReply ==
    /\ Receives("setupAck")
    /\ CASE Item = Lost -> ConnectFails("conn")
         [] Item.kind = "reply" -> NextStage
         [] Item.kind = "nak" /\ op.stage = "unlock" -> ConnectFails("auth")
         [] Item.kind = "nak" /\ op.stage = "session" -> NextStage
         [] OTHER -> Skip
    /\ UNCHANGED <<taskVars, fired, setupVars, radioVars, miscVars>>

\* No ack: once more, then the setup goes on without it.
SetupTimeout ==
    /\ at = "setupAck" /\ rx = <<>>
    /\ IF op.try < WriteAttempts
       THEN at' = "setup" /\ op' = [op EXCEPT !.try = @ + 1] /\ UNCHANGED linkVars
       ELSE NextStage
    /\ UNCHANGED <<taskVars, fired, setupVars, rx, radioVars, miscVars>>

SetupDone ==
    /\ at = "setup" /\ op.stage = "done"
    /\ vetted' = client
    /\ at' = "attempt"
    /\ op' = [op EXCEPT !.try = 1]
    /\ UNCHANGED <<taskVars, fired, linkVars, mode, advert, bgc, rx, radioVars, miscVars>>

\* A frame's own write fails.
SetupWriteFails ==
    /\ at \in {"key", "confirm", "setupAck", "setupSent"}
    /\ ConnectFails("io")
    /\ UNCHANGED <<taskVars, fired, setupVars, rx, radioVars, miscVars>>

-----------------------------------------------------------------------------
(* The operations' own traffic: _send_write_verified, send_unacked, query. *)

\* One user frame is encrypted and written to the current link.
Sends(pc) ==
    /\ at' = pc
    /\ op' = [op EXCEPT !.sent = Append(@, client)]
    /\ UNCHANGED linkVars

Reading == CASE kind[Holder] \in {"write", "once"} -> "ack"
             [] kind[Holder] = "query" -> "collect"
             [] OTHER -> "paced"

Talk ==
    /\ at = "attempt"
    /\ IF kind[Holder] = "connect"
       THEN Leave("ok") /\ UNCHANGED rx
       ELSE /\ rx' = <<>>
            /\ IF CanSend THEN Sends(Reading) ELSE TalkFails("conn")
    /\ UNCHANGED <<taskVars, fired, setupVars, radioVars, miscVars>>

\* The operation's reply, from the link of Item.
Heard(e) ==
    /\ at' = "end"
    /\ op' = [op EXCEPT !.exc = e, !.heard = Item.link]
    /\ UNCHANGED linkVars

AckReply ==
    /\ Receives("ack")
    /\ CASE Item = Lost -> IF kind[Holder] = "once" THEN Leave("ok") ELSE TalkFails("lost")
         [] Item.kind = "reply" -> IF kind[Holder] = "once" THEN Leave("ok") ELSE Heard("ok")
         [] Item.kind = "nak" -> IF kind[Holder] = "once" THEN Leave("rejected") ELSE Heard("rejected")
         [] OTHER -> Skip
    /\ UNCHANGED <<taskVars, fired, setupVars, radioVars, miscVars>>

\* Fault: one attempt too many.
AckTimeoutOneMore ==
    /\ at = "ack" /\ rx = <<>>
    /\ CASE kind[Holder] = "once" -> Leave("ok")
         [] kind[Holder] # "once" /\ op.try <= WriteAttempts ->
              /\ at' = "attempt"
              /\ op' = [op EXCEPT !.try = @ + 1]
              /\ UNCHANGED linkVars
         [] OTHER -> TalkFails("timeout")
    /\ UNCHANGED <<taskVars, fired, setupVars, rx, radioVars, miscVars>>

\* A write is sent WriteAttempts times on a link; send_once's one write
\* counts as done.
AckTimeout ==
    /\ at = "ack" /\ rx = <<>>
    /\ CASE kind[Holder] = "once" -> Leave("ok")
         [] kind[Holder] # "once" /\ op.try < WriteAttempts ->
              /\ at' = "attempt"
              /\ op' = [op EXCEPT !.try = @ + 1]
              /\ UNCHANGED linkVars
         [] OTHER -> TalkFails("timeout")
    /\ UNCHANGED <<taskVars, fired, setupVars, rx, radioVars, miscVars>>

\* _write_locked's second pass, on a fresh link.
Retry ==
    /\ at = "retry"
    /\ at' = "ensure"
    /\ op' = [op EXCEPT !.pass = 2, !.try = 1]
    /\ UNCHANGED <<taskVars, fired, linkVars, setupVars, rx, radioVars, miscVars>>

\* A query ends on its terminal frame.
CollectReply ==
    /\ Receives("collect")
    /\ CASE Item = Lost -> Leave("lost")
         [] Item.kind = "reply" -> Heard("ok")
         [] OTHER -> Skip
    /\ UNCHANGED <<taskVars, fired, setupVars, radioVars, miscVars>>

\* ... or on its idle gap or its timeout, with what it has.
CollectTimeout ==
    /\ at = "collect" /\ rx = <<>>
    /\ Leave("ok")
    /\ UNCHANGED <<taskVars, fired, setupVars, rx, radioVars, miscVars>>

\* send_unacked: the gap after a frame ends.
StreamNext ==
    /\ at = "paced"
    /\ IF Len(op.sent) >= StreamLen
       THEN Leave("ok")
       ELSE IF CanSend THEN Sends("paced") ELSE Leave("conn")
    /\ UNCHANGED <<taskVars, fired, setupVars, rx, radioVars, miscVars>>

WriteFails ==
    /\ at \in TalkAwaits
    /\ TalkFails("io")
    /\ UNCHANGED <<taskVars, fired, setupVars, rx, radioVars, miscVars>>

-----------------------------------------------------------------------------
(* The end of a teardown's wait, and cancellations.                        *)

TeardownWaited ==
    /\ at = "teardown" /\ td[op.waits] # "running"
    /\ at' = op.after
    /\ op' = [op EXCEPT !.waits = 0]
    /\ UNCHANGED <<taskVars, fired, linkVars, setupVars, rx, radioVars, miscVars>>

\* Fault: no bound on the wait for a teardown.
TeardownUnbounded == FALSE /\ UNCHANGED vars

\* DISCONNECT_TIMEOUT: the holder abandons the teardown it waits for.
TeardownBound ==
    /\ at = "teardown" /\ td[op.waits] = "running"
    /\ td' = [td EXCEPT ![op.waits] = "abandoned"]
    /\ at' = op.after
    /\ op' = [op EXCEPT !.waits = 0]
    /\ UNCHANGED <<taskVars, fired, client, ready, key, setupVars, rx, radioVars, miscVars>>

\* Where each cancellation can land: the caller's anywhere, the operation
\* deadline within op() only, the connect limit within the connect phase.
CanFire(c) ==
    /\ at \in Awaits
    /\ c \notin fired
    /\ c = "deadline" => /\ kind[Holder] \notin {"disconnect", "close"}
                         /\ ~(at = "teardown" /\ op.after = "end")
    /\ c = "limit" => /\ "timeout" \in budget[Holder]
                      /\ \/ at \in ConnectAwaits
                         \/ at = "teardown" /\ op.after \in {"sessionNext", "unwind"}

\* Fault: a teardown whose wait was cut short is not recorded.
CutTeardownUnrecorded(c) ==
    /\ released' = (released \/ op.after = "released")
    /\ CASE op.after \in {"sessionNext", "unwind"} -> LeaveConnect(Stronger(c))
         [] op.after \in {"retry", "ensure"} -> Leave(c)
         [] OTHER -> Handle(Stronger(c))
    /\ UNCHANGED recorded

\* A teardown's wait cut short: the teardown itself runs on, recorded.
CutTeardown(c) ==
    /\ recorded' = recorded \cup {l \in {op.waits} : td[l] = "running"}
    /\ released' = (released \/ op.after = "released")
    /\ CASE op.after \in {"sessionNext", "unwind"} -> LeaveConnect(Stronger(c))
         [] op.after \in {"retry", "ensure"} -> Leave(c)
         [] OTHER -> Handle(Stronger(c))

\* Fault: a cancelled connect leaves its half set up link in place.
CancelKeepsLink(c) ==
    /\ CanFire(c)
    /\ fired' = fired \cup {c}
    /\ IF at = "teardown"
       THEN CutTeardown(c)
       ELSE /\ Leave(IF at \in ConnectAwaits THEN "cancelled" ELSE c)
            /\ UNCHANGED <<recorded, released>>
    /\ UNCHANGED <<taskVars, setupVars, rx, radioVars, closed>>

Cancel(c) ==
    /\ CanFire(c)
    /\ fired' = fired \cup {c}
    /\ IF at = "teardown"
       THEN CutTeardown(c)
       ELSE /\ CASE at \in ConnectAwaits -> TearDown("unwind", c)
                 [] at \in TalkAwaits \cup {"finish"} -> Leave(c)
                 [] at = "gap" -> Handle(c)
            /\ UNCHANGED <<recorded, released>>
    /\ UNCHANGED <<taskVars, setupVars, rx, radioVars, closed>>

-----------------------------------------------------------------------------
(* The BLE stack and the device.                                           *)

\* client.disconnect() of a teardown ends, in success or in an error that
\* leaves the link as it is.
TeardownEnds(l) ==
    /\ Yielded
    /\ td[l] = "running"
    /\ recorded' = recorded \ {l}
    /\ \/ /\ td' = [td EXCEPT ![l] = "done"]
          /\ phys' = [phys EXCEPT ![l] = "down"]
          /\ due' = IF phys[l] = "up" THEN due \cup {l} ELSE due
       \/ /\ td' = [td EXCEPT ![l] = "failed"]
          /\ UNCHANGED <<phys, due>>
    /\ UNCHANGED <<taskVars, at, op, fired, client, ready, key, setupVars, rx, links, closed, released>>

\* Fault: nothing abandons a recorded teardown.
NeverAbandon(l) == FALSE /\ l \in recorded /\ UNCHANGED vars

\* The abandon scheduled at a recorded teardown's bound.
Abandon(l) ==
    /\ Yielded
    /\ l \in recorded /\ td[l] = "running"
    /\ td' = [td EXCEPT ![l] = "abandoned"]
    /\ recorded' = recorded \ {l}
    /\ UNCHANGED <<taskVars, at, op, fired, client, ready, key, setupVars, rx, radioVars, closed, released>>

\* The radio loses a link; its disconnect callback follows later.
LinkDrops(l) ==
    /\ Yielded
    /\ phys[l] = "up"
    /\ phys' = [phys EXCEPT ![l] = "down"]
    /\ due' = due \cup {l}
    /\ UNCHANGED <<taskVars, at, op, fired, linkVars, setupVars, rx, links, miscVars>>

\* Fault: a superseded link's callback and notifications count as well.
AnyLinkIsCurrent(l) == l \in LinkNo

\* Only the current link's callback and notifications count.
IsCurrent(l) == l = client

\* Fault: the callback wakes nobody.
OnDisconnectSilent(l) ==
    /\ Yielded
    /\ l \in due
    /\ due' = due \ {l}
    /\ IF IsCurrent(l)
       THEN ready' = FALSE /\ key' = 0 /\ client' = 0
       ELSE UNCHANGED <<ready, key, client>>
    /\ UNCHANGED <<taskVars, at, op, fired, td, setupVars, rx, links, phys, miscVars>>

OnDisconnect(l) ==
    /\ Yielded
    /\ l \in due
    /\ due' = due \ {l}
    /\ IF IsCurrent(l)
       THEN /\ ready' = FALSE /\ key' = 0 /\ client' = 0
            /\ rx' = Enqueued(rx, Lost)
       ELSE UNCHANGED <<ready, key, client, rx>>
    /\ UNCHANGED <<taskVars, at, op, fired, td, setupVars, links, phys, miscVars>>

\* What reaches the queue of a frame of kind k.  Before the session is ready
\* frames are raw, and only the handshake's mean something; after, a late
\* handshake retransmit is dropped, or (past its window) decrypts to noise.
Decoded(k) ==
    IF ready
    THEN (IF k \in {"key", "confirm"} THEN {"noise"} ELSE {k})
    ELSE (IF k \in {"key", "confirm"} THEN {k} ELSE {"noise"})

Notified(l) ==
    /\ Yielded
    /\ phys[l] = "up" /\ IsCurrent(l)
    /\ \E k \in FrameKinds : \E d \in Decoded(k) :
          rx' = Enqueued(rx, [kind |-> d, link |-> l])
    /\ UNCHANGED <<taskVars, at, op, fired, linkVars, setupVars, radioVars, miscVars>>

\* Fault: a new advertised mode reaches the session that is up.
SetAdvertisedNow ==
    /\ Yielded
    /\ advert' \in Advertised \ {advert}
    /\ mode' = advert'
    /\ UNCHANGED <<taskVars, at, op, fired, linkVars, bgc, vetted, rx, radioVars, miscVars>>

\* set_advertised_encryption.
SetAdvertised ==
    /\ Yielded
    /\ advert' \in Advertised \ {advert}
    /\ UNCHANGED <<taskVars, at, op, fired, linkVars, mode, bgc, vetted, rx, radioVars, miscVars>>

-----------------------------------------------------------------------------
Proceed ==
    \/ Acquire \/ End \/ GapEnds \/ Fresh \/ Released
    \/ Ensure \/ Connect \/ Established \/ Subscribed \/ ConnectStepFails
    \/ SessionNext \/ Unwind \/ Finished
    \/ Prepare \/ BgcRead \/ SettleMode \/ KeyReply \/ ConfirmReply \/ HandshakeTimeout
    \/ SessionReady \/ SetupSend \/ SetupSent \/ SetupReply \/ SetupTimeout \/ SetupDone \/ SetupWriteFails
    \/ Talk \/ AckReply \/ AckTimeout \/ Retry \/ CollectReply \/ CollectTimeout
    \/ StreamNext \/ WriteFails
    \/ TeardownWaited \/ TeardownBound

Environment ==
    \/ \E l \in LinkNo : \/ TeardownEnds(l) \/ Abandon(l)
                         \/ LinkDrops(l) \/ OnDisconnect(l) \/ Notified(l)
    \/ SetAdvertised

\* Every call has ended.
AllDone ==
    /\ \A t \in Tasks : status[t] \in {"returned", "raised"}
    /\ UNCHANGED vars

Next ==
    \/ \E t \in Tasks : Call(t) \/ CancelWaiting(t)
    \/ Proceed
    \/ \E c \in Cancellations : Cancel(c)
    \/ Environment
    \/ AllDone

Spec == Init /\ [][Next]_vars

\* Every wait of the holder ends by itself or at its timeout, a teardown task
\* at its bound, and the event loop runs a callback that is due.  A flood of
\* frames keeps a queue from running empty for a while, not past a deadline:
\* the timeouts of the reads are strongly fair.
Fairness ==
    /\ WF_vars(Proceed)
    /\ SF_vars(HandshakeTimeout) /\ SF_vars(SetupTimeout)
    /\ SF_vars(AckTimeout) /\ SF_vars(CollectTimeout)
    /\ \A l \in LinkNo : WF_vars(Abandon(l)) /\ WF_vars(OnDisconnect(l))

FairSpec == Spec /\ Fairness

-----------------------------------------------------------------------------
Ended(t) == status[t] \in {"returned", "raised"}

\* Where an operation goes on after a teardown.
Afters == {"end", "sessionNext", "unwind", "retry", "ensure", "released"}

OpType ==
    [sess : Nat, pass : {1, 2}, try : Nat, stage : {"unlock", "session", "done"},
     exc : Exceptions, after : Afters,
     waits : LinkNo \cup {0}, links0 : LinkNo \cup {0},
     adv : {"NONE", "AES_RC4_PSK"}, hsKey : LinkNo \cup {0},
     sent : Seq(LinkNo), heard : LinkNo \cup {0}]

CallsTyped ==
    /\ status \in [Tasks -> {"new", "waiting", "running", "returned", "raised"}]
    /\ kind \in [Tasks -> Kinds] /\ budget \in [Tasks -> Budgets]
    /\ lockQ \in Seq(Tasks)
    /\ fired \subseteq Cancellations

\* What the holder's blocks write.
HolderTyped ==
    /\ at \in Awaits \cup Running \cup {"free"}
    /\ op \in OpType
    /\ client \in LinkNo \cup {0} /\ key \in LinkNo \cup {0} /\ ready \in BOOLEAN
    /\ td \in [LinkNo -> {"none", "running", "done", "failed", "abandoned"}]

SessionTyped ==
    /\ mode \in Modes /\ advert \in {"NONE", "AES_RC4_PSK"}
    /\ bgc \in {"unread"} \cup BgcVersions
    /\ vetted \in LinkNo \cup {0}
    /\ closed \in BOOLEAN /\ released \in BOOLEAN

RadioTyped ==
    /\ links \in LinkNo \cup {0}
    /\ phys \in [LinkNo -> {"none", "up", "down"}]
    /\ recorded \subseteq LinkNo /\ due \subseteq LinkNo

QueueTyped == rx \in Seq(Frames \cup {Lost}) /\ Len(rx) <= RxMax + 1

\* The values each variable takes; the receive queue never outgrows its bound
\* by more than the sentinel.
TypeOK == CallsTyped /\ HolderTyped /\ SessionTyped /\ RadioTyped /\ QueueTyped

\* No link is leaked: one that is up is the current client, or its teardown is
\* running, was abandoned at its bound or failed in the BLE stack.  Whatever
\* the step at which an operation failed, timed out or was cancelled.
NoOrphanLink ==
    \A l \in LinkNo :
        phys[l] = "up" => l = client \/ td[l] \in {"running", "failed", "abandoned"}

\* "Teardown is detached and bounded": a teardown still running is waited for
\* by the operation that holds the lock, or is scheduled for its abandon.
TeardownsBounded ==
    \A l \in LinkNo :
        td[l] = "running" => l \in recorded \/ (at = "teardown" /\ op.waits = l)

\* A connect that ran into its limit gives the lock up with every teardown
\* finished or abandoned, those an earlier operation's cancellation cut short
\* included, so the next connect does not start beside an old disconnect.
LimitLeavesNoTeardown ==
    at = "end" /\ op.exc = "limit" => \A l \in LinkNo : td[l] # "running"

\* "A disconnect wakes anything waiting on a reply immediately": whoever waits
\* for a frame while there is no link has the sentinel in its queue.
LostLinkWakesWaiter ==
    at \in {"key", "confirm", "setupAck", "ack", "collect"} /\ client = 0
        => \E i \in DOMAIN rx : rx[i] = Lost

\* "A superseded client never reaches the current session": the reply that
\* ended an operation came from the link its last frame went out on.
ReplyFromOwnLink ==
    op.heard # 0 => op.sent # <<>> /\ op.heard = op.sent[Len(op.sent)]

\* A command goes out at most WriteAttempts times on a link, on at most two
\* links (one reconnect and retry); send_once and a query write one frame.
CopiesBounded ==
    at # "free" =>
        /\ kind[Holder] = "write" =>
              /\ Cardinality({op.sent[i] : i \in DOMAIN op.sent}) <= 2
              /\ \A l \in LinkNo :
                    Cardinality({i \in DOMAIN op.sent : op.sent[i] = l}) <= WriteAttempts
        /\ kind[Holder] \in {"once", "query"} => Len(op.sent) <= 1

\* After a close() has returned nothing holds a link or opens one.
ClosedForGood ==
    (\E t \in Tasks : kind[t] = "close" /\ status[t] = "returned")
        => client = 0 /\ at \notin ConnectAwaits

\* A user frame is only written on a link whose session setup (handshake,
\* unlock, session frames) ran to its end on that link, in a mode the transport
\* speaks, and under the key that link's own handshake negotiated.
SentOnVettedLink ==
    [][ (at' \in TalkAwaits /\ op'.sent # op.sent) =>
          /\ client # 0 /\ vetted = client
          /\ \/ mode = "NONE"
             \/ mode = "AES_RC4_PSK" /\ key = client ]_vars

\* A session keeps the mode it was set up with to its end, whatever is
\* advertised meanwhile.
ModeKept ==
    [][ (IsConnected /\ client' = client /\ ready') => mode' = mode ]_vars

\* Every call ends, whatever the link and the device do.
EveryCallEnds == \A t \in Tasks : status[t] = "waiting" ~> Ended(t)

\* No teardown runs forever.
EveryTeardownEnds == \A l \in LinkNo : td[l] = "running" ~> td[l] # "running"
=============================================================================
