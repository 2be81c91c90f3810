---------------------------- MODULE QuickfixInput ----------------------------
(***************************************************************************)
(* The quickfix input, src/internal/impl/quickfix/input.go, composed with  *)
(* the registry and handle of FixApp.                                      *)
(*                                                                         *)
(* Actors:                                                                 *)
(*  - one pipeline caller per input a \in Apps, which calls Connect, then  *)
(*    Read in a loop (cancelling a Read on shutdown), then Close.  The     *)
(*    caller is sequential: the pipeline never overlaps two calls.         *)
(*  - one engine session worker per (handle, session): while the engine    *)
(*    runs it invokes the Application callbacks of the input that created  *)
(*    the handle (appOf[k]); each callback sends one event on that input's *)
(*    unbuffered eventChan and so blocks until a Read receives it.         *)
(*                                                                         *)
(* A Go panic (send on or close of a closed channel, close of a nil        *)
(* channel, write to a nil map) ends the process: crash records the first  *)
(* one and disables every action.                                          *)
(***************************************************************************)
EXTENDS FixApp, TLC

CONSTANTS
  AdapterPath,    \* config_file of each input
  AdapterRole,    \* application_type of each input
  InitialFile,
  StartResults,   \* outcomes acceptor.Start / initiator.Start may have
  Sessions,       \* sessions every engine runs
  DictSessions,   \* sessions naming a (Transport)DataDictionary that parses
  EventKinds,     \* callbacks engines may make after OnCreate
  MaxEvents,      \* callbacks per session worker
  NilRenderOk     \* msg.message.ToJSON tolerates a nil message

ASSUME
  /\ AdapterPath \in [Apps -> Paths]
  /\ InitialFile \in [Paths -> Contents]
  /\ StartResults \subseteq BOOLEAN /\ StartResults # {}
  /\ DictSessions \subseteq Sessions
  /\ MaxEvents \in Nat
  /\ NilRenderOk \in BOOLEAN

\* quickfixEventType values; the last four carry a message
Kinds == {"create", "logon", "logout", "to_admin", "to_app", "from_admin",
          "from_app"}
WithMessage == {"to_admin", "to_app", "from_admin", "from_app"}
ASSUME EventKinds \subseteq Kinds \ {"create"}

\* The zero quickfix.SessionID, and a nil *quickfix.Message
ZeroSession == "zero"
NoMsg == <<"nil">>
NoPanic == "none"

\* One session goroutine of the engine of handle w[1]
Workers == Digests \X Sessions
\* A rendered payload is the number of the message it shows; 0 is none.
NoDelivery == [seq |-> 0, sess |-> ZeroSession, payload |-> 0]
NoEvent == [sess |-> ZeroSession, kind |-> "none", msg |-> NoMsg]
\* No event in flight (wev) or received (rev)
NoInflight == [ev |-> NoEvent, to |-> NoApp, from |-> <<NoDigest, ZeroSession>>,
               seq |-> 0]

VARIABLES
  apc,      \* apc[a]: the call the pipeline is in on input a
  closing,  \* closing[a]: Close has been called on a
  achk,     \* achk[a]: checksum computed in the current Connect / Close
  ahandle,  \* ahandle[a]: the fixapp Connect obtained (local variable)
  res,      \* res[a]: what the last call on a returned
  field,    \* field[a]: q.eventChan is non-nil
  chan,     \* chan[a]: the channel made by Connect: "none", "open", "closed"
  rev,      \* rev[a]: the event a Read received and is rendering
  wpc,      \* wpc[w]: "idle", "sending" (blocked in q.eventChan <- event)
            \* or "stuck" (sending on a nil channel: blocked forever)
  wev,      \* wev[w]: the event worker w is sending, its target and seq
  nsent,    \* nsent[w]: callbacks made by worker w
  buf,      \* buf[w]: the message in the engine's buffer of worker w
  last,     \* last[a][w]: the last message Read returned from worker w
  crash     \* the panic that ended the process, or NoPanic

inputVars == <<apc, closing, achk, ahandle, res, field, chan, rev>>
workerVars == <<wpc, wev, nsent, buf>>
vars == <<fixVars, inputVars, workerVars, last, crash>>

Events == [sess : {ZeroSession} \cup Sessions, kind : Kinds,
           msg : {NoMsg} \cup ({"copy"} \X (0..MaxEvents))]

TypeOK ==
  /\ FixTypeOK
  /\ apc \in [Apps -> {"new", "connecting", "starting", "idle", "reading",
                       "received", "closeChecksum", "closeLookup",
                       "closeStop", "closeWait"}]
  /\ closing \in [Apps -> BOOLEAN]
  /\ achk \in [Apps -> Digests \cup {NoDigest}]
  /\ ahandle \in [Apps -> Digests \cup {NoDigest}]
  /\ res \in [Apps -> {"none", "ok", "err", "eof", "notconn", "cancelled"}]
  /\ field \in [Apps -> BOOLEAN]
  /\ chan \in [Apps -> {"none", "open", "closed"}]
  /\ rev \in [Apps -> [ev : Events \cup {NoEvent}, to : Apps \cup {NoApp},
                       from : Workers \cup {NoInflight.from},
                       seq : 0..MaxEvents]]
  /\ wpc \in [Workers -> {"idle", "sending", "stuck"}]
  /\ nsent \in [Workers -> 0..MaxEvents]
  /\ buf \in [Workers -> 0..MaxEvents]
  /\ crash \in {NoPanic, "send on closed channel", "close of nil channel",
                "close of closed channel", "assignment to nil map",
                "nil message"}

Init ==
  /\ FixInit(InitialFile)
  /\ apc = [a \in Apps |-> "new"]
  /\ closing = [a \in Apps |-> FALSE]
  /\ achk = [a \in Apps |-> NoDigest]
  /\ ahandle = [a \in Apps |-> NoDigest]
  /\ res = [a \in Apps |-> "none"]
  /\ field = [a \in Apps |-> FALSE]
  /\ chan = [a \in Apps |-> "none"]
  /\ rev = [a \in Apps |-> NoInflight]
  /\ wpc = [w \in Workers |-> "idle"]
  /\ wev = [w \in Workers |-> NoInflight]
  /\ nsent = [w \in Workers |-> 0]
  /\ buf = [w \in Workers |-> 0]
  /\ last = [a \in Apps |-> [w \in Workers |-> NoDelivery]]
  /\ crash = NoPanic

Alive == crash = NoPanic

-----------------------------------------------------------------------------
(***************************************************************************)
(* EventBridge                                                             *)
(***************************************************************************)

\* Mutant: the event keeps the engine's message instead of a copy.
NewQuickfixEventAliased(id, t, message, content) ==
  [sess |-> ZeroSession, kind |-> t, msg |-> message]

(* NewQuickfixEvent: copies a non-nil message into a fresh one.  It never  *)
(* assigns the sessionId field, which keeps the zero SessionID.  content   *)
(* is what the engine's message holds at the time of the call.            *)
NewQuickfixEvent(id, t, message, content) ==
  [sess |-> ZeroSession, kind |-> t,
   msg |-> IF message = NoMsg THEN NoMsg ELSE <<"copy", content>>]

(* q.eventChan <- event, from the callback of worker w.  The channel       *)
(* operand is read when the statement runs: a nil field blocks forever, a *)
(* closed channel panics, an open one blocks until a Read receives.        *)
Send(w, a, ev, n) ==
  LET inflight == [ev |-> ev, to |-> a, from |-> w, seq |-> n] IN
  CASE ~field[a] ->
         /\ wpc' = [wpc EXCEPT ![w] = "stuck"]
         /\ wev' = [wev EXCEPT ![w] = inflight]
         /\ UNCHANGED crash
    [] chan[a] = "closed" ->
         /\ crash' = "send on closed channel"
         /\ UNCHANGED <<wpc, wev>>
    [] OTHER ->
         /\ wpc' = [wpc EXCEPT ![w] = "sending"]
         /\ wev' = [wev EXCEPT ![w] = inflight]
         /\ UNCHANGED crash

(* One of the seven callbacks, made by the session goroutine w of a        *)
(* running engine on the input that created the handle.  OnCreate comes   *)
(* first; when the session names a DataDictionary or a                    *)
(* TransportDataDictionary that parses, OnCreate stores it in a map nobody *)
(* made and panics.  No store into the maps can succeed, so the dictionary *)
(* Read looks up is always nil and is not state.  The engine puts message  *)
(* n in its buffer before the call and reuses the buffer after it.         *)
Callback(w) ==
  LET k == w[1]
      s == w[2]
      n == nsent[w] + 1
  IN
  /\ Alive
  /\ running[k]
  /\ wpc[w] = "idle"
  /\ nsent[w] < MaxEvents
  /\ \E t \in (IF nsent[w] = 0 THEN {"create"} ELSE EventKinds) :
       LET message == IF t \in WithMessage THEN <<"ref", w>> ELSE NoMsg
           ev == NewQuickfixEvent(s, t, message, n)
       IN
       /\ nsent' = [nsent EXCEPT ![w] = n]
       /\ buf' = [buf EXCEPT ![w] = n]
       /\ IF t = "create" /\ s \in DictSessions
            THEN /\ crash' = "assignment to nil map"
                 /\ UNCHANGED <<wpc, wev>>
            ELSE Send(w, appOf[k], ev, n)
  /\ UNCHANGED <<fixVars, inputVars, last>>

-----------------------------------------------------------------------------
(***************************************************************************)
(* ConsumerAdapter: Connect                                                *)
(***************************************************************************)

\* GetOrCreateFixApp from Connect: createChecksum
ConnectChecksum(a) ==
  /\ Alive
  /\ apc[a] = "new"
  /\ ~closing[a]
  /\ IF ChecksumOk(AdapterPath[a])
       THEN /\ achk' = [achk EXCEPT ![a] = Checksum(AdapterPath[a])]
            /\ apc' = [apc EXCEPT ![a] = "connecting"]
            /\ UNCHANGED res
       ELSE /\ res' = [res EXCEPT ![a] = "err"]
            /\ UNCHANGED <<achk, apc>>
  /\ UNCHANGED <<fixVars, closing, ahandle, field, chan, rev, workerVars,
                 last, crash>>

\* GetOrCreateFixApp from Connect, locked part, then make(chan) and
\* q.eventChan = eventChan; an error returns before the channel is made.
ConnectLookup(a) ==
  /\ Alive
  /\ apc[a] = "connecting"
  /\ \/ /\ \/ GetOrCreateHit(achk[a])
             \/ GetOrCreateNew(achk[a], AdapterPath[a], AdapterRole[a], a)
        /\ ahandle' = [ahandle EXCEPT ![a] = achk[a]]
        /\ field' = [field EXCEPT ![a] = TRUE]
        /\ chan' = [chan EXCEPT ![a] = "open"]
        /\ apc' = [apc EXCEPT ![a] = "starting"]
        /\ UNCHANGED res
     \/ /\ GetOrCreateFail(achk[a])
        /\ res' = [res EXCEPT ![a] = "err"]
        /\ apc' = [apc EXCEPT ![a] = "new"]
        /\ UNCHANGED <<ahandle, field, chan>>
  /\ UNCHANGED <<closing, achk, rev, workerVars, last, crash>>

\* fixapp.Start(); its error is dropped and Connect returns nil.
ConnectStart(a) ==
  /\ Alive
  /\ apc[a] = "starting"
  /\ \E ok \in StartResults : StartHandle(ahandle[a], ok)
  /\ apc' = [apc EXCEPT ![a] = "idle"]
  /\ res' = [res EXCEPT ![a] = "ok"]
  /\ UNCHANGED <<closing, achk, ahandle, field, chan, rev, workerVars, last,
                 crash>>

-----------------------------------------------------------------------------
(***************************************************************************)
(* ConsumerAdapter: Read                                                   *)
(***************************************************************************)

\* Read takes eventChan under q.mut; a nil one is ErrNotConnected.
ReadBegin(a) ==
  /\ Alive
  /\ apc[a] = "idle"
  /\ IF field[a]
       THEN /\ apc' = [apc EXCEPT ![a] = "reading"]
            /\ UNCHANGED res
       ELSE /\ res' = [res EXCEPT ![a] = "notconn"]
            /\ UNCHANGED apc
  /\ UNCHANGED <<fixVars, closing, achk, ahandle, field, chan, rev,
                 workerVars, last, crash>>

\* The select receives from a callback blocked on the channel, which
\* returns to the engine.
ReadReceive(a) ==
  /\ Alive
  /\ apc[a] = "reading"
  /\ \E w \in Workers :
       /\ wpc[w] = "sending"
       /\ wev[w].to = a
       /\ rev' = [rev EXCEPT ![a] = wev[w]]
       /\ wpc' = [wpc EXCEPT ![w] = "idle"]
       /\ wev' = [wev EXCEPT ![w] = NoInflight]
  /\ apc' = [apc EXCEPT ![a] = "received"]
  /\ UNCHANGED <<fixVars, closing, achk, ahandle, res, field, chan, nsent,
                 buf, last, crash>>

\* The select sees the channel closed: q.eventChan = nil, ErrEndOfInput.
ReadClosed(a) ==
  /\ Alive
  /\ apc[a] = "reading"
  /\ chan[a] = "closed"
  /\ field' = [field EXCEPT ![a] = FALSE]
  /\ res' = [res EXCEPT ![a] = "eof"]
  /\ apc' = [apc EXCEPT ![a] = "idle"]
  /\ UNCHANGED <<fixVars, closing, achk, ahandle, chan, rev, workerVars,
                 last, crash>>

\* Mutant: a cancelled Read drains the event a callback is blocked on.
ReadCancelDrains(a) ==
  /\ Alive
  /\ apc[a] = "reading"
  /\ \/ \E w \in Workers :
          /\ wpc[w] = "sending"
          /\ wev[w].to = a
          /\ wpc' = [wpc EXCEPT ![w] = "idle"]
          /\ wev' = [wev EXCEPT ![w] = NoInflight]
     \/ UNCHANGED <<wpc, wev>>
  /\ res' = [res EXCEPT ![a] = "cancelled"]
  /\ apc' = [apc EXCEPT ![a] = "idle"]
  /\ UNCHANGED <<fixVars, closing, achk, ahandle, field, chan, rev, nsent,
                 buf, last, crash>>

\* The select sees ctx.Done(): nothing is taken from the channel.
ReadCancel(a) ==
  /\ Alive
  /\ apc[a] = "reading"
  /\ res' = [res EXCEPT ![a] = "cancelled"]
  /\ apc' = [apc EXCEPT ![a] = "idle"]
  /\ UNCHANGED <<fixVars, closing, achk, ahandle, field, chan, rev,
                 workerVars, last, crash>>

\* msg.message.ToJSON: a copy renders as it was copied, a reference
\* renders what the engine's buffer holds now.
Render(m) ==
  CASE m = NoMsg -> 0
    [] m[1] = "copy" -> m[2]
    [] OTHER -> buf[m[2]]

\* Render the received event and set the session and event metadata.
ReadReturn(a) ==
  LET r == rev[a] IN
  /\ Alive
  /\ apc[a] = "received"
  /\ IF r.ev.msg = NoMsg /\ ~NilRenderOk
       THEN /\ crash' = "nil message"
            /\ UNCHANGED <<apc, res, rev, last>>
       ELSE /\ last' = [last EXCEPT ![a][r.from] =
                          [seq |-> r.seq, sess |-> r.ev.sess,
                           payload |-> Render(r.ev.msg)]]
            /\ rev' = [rev EXCEPT ![a] = NoInflight]
            /\ res' = [res EXCEPT ![a] = "ok"]
            /\ apc' = [apc EXCEPT ![a] = "idle"]
            /\ UNCHANGED crash
  /\ UNCHANGED <<fixVars, closing, achk, ahandle, field, chan, workerVars>>

-----------------------------------------------------------------------------
(***************************************************************************)
(* ConsumerAdapter: Close                                                  *)
(***************************************************************************)

\* close(q.eventChan), first in the code: blocked senders on it panic.
CloseChannel(a) ==
  /\ Alive
  /\ apc[a] \in {"new", "idle"}
  /\ ~closing[a]
  /\ closing' = [closing EXCEPT ![a] = TRUE]
  /\ CASE ~field[a] ->
            /\ crash' = "close of nil channel"
            /\ UNCHANGED <<apc, chan>>
       [] chan[a] = "closed" ->
            /\ crash' = "close of closed channel"
            /\ UNCHANGED <<apc, chan>>
       [] OTHER ->
            /\ chan' = [chan EXCEPT ![a] = "closed"]
            /\ crash' = IF \E w \in Workers : wpc[w] = "sending" /\ wev[w].to = a
                          THEN "send on closed channel" ELSE NoPanic
            /\ apc' = [apc EXCEPT ![a] = "closeChecksum"]
  /\ UNCHANGED <<fixVars, achk, ahandle, res, field, rev, workerVars, last>>

\* Close calls GetOrCreateFixApp again: createChecksum of the file now.
CloseChecksum(a) ==
  /\ Alive
  /\ apc[a] = "closeChecksum"
  /\ IF ChecksumOk(AdapterPath[a])
       THEN /\ achk' = [achk EXCEPT ![a] = Checksum(AdapterPath[a])]
            /\ apc' = [apc EXCEPT ![a] = "closeLookup"]
            /\ UNCHANGED res
       ELSE /\ res' = [res EXCEPT ![a] = "err"]
            /\ apc' = [apc EXCEPT ![a] = "idle"]
            /\ UNCHANGED achk
  /\ UNCHANGED <<fixVars, closing, ahandle, field, chan, rev, workerVars,
                 last, crash>>

CloseLookup(a) ==
  /\ Alive
  /\ apc[a] = "closeLookup"
  /\ \/ /\ \/ GetOrCreateHit(achk[a])
             \/ GetOrCreateNew(achk[a], AdapterPath[a], AdapterRole[a], a)
        /\ apc' = [apc EXCEPT ![a] = "closeStop"]
        /\ UNCHANGED res
     \/ /\ GetOrCreateFail(achk[a])
        /\ res' = [res EXCEPT ![a] = "err"]
        /\ apc' = [apc EXCEPT ![a] = "idle"]
  /\ UNCHANGED <<closing, achk, ahandle, field, chan, rev, workerVars, last,
                 crash>>

\* fixapp.Stop() on the handle Close looked up.
CloseStop(a) ==
  /\ Alive
  /\ apc[a] = "closeStop"
  /\ \/ /\ StopDecrement(achk[a])
        /\ apc' = [apc EXCEPT ![a] = "idle"]
        /\ res' = [res EXCEPT ![a] = "ok"]
     \/ /\ StopBegin(achk[a], a)
        /\ apc' = [apc EXCEPT ![a] = "closeWait"]
        /\ UNCHANGED res
  /\ UNCHANGED <<closing, achk, ahandle, field, chan, rev, workerVars, last,
                 crash>>

\* acceptor.Stop / initiator.Stop returns once no session goroutine of the
\* engine is inside a callback; fixappstorelock is held all the while.
CloseWait(a) ==
  /\ Alive
  /\ apc[a] = "closeWait"
  /\ \A w \in Workers : w[1] = achk[a] => wpc[w] = "idle"
  /\ StopEnd(achk[a], a)
  /\ apc' = [apc EXCEPT ![a] = "idle"]
  /\ res' = [res EXCEPT ![a] = "ok"]
  /\ UNCHANGED <<closing, achk, ahandle, field, chan, rev, workerVars, last,
                 crash>>

-----------------------------------------------------------------------------
Environment ==
  /\ Alive
  /\ EditConfig
  /\ UNCHANGED <<inputVars, workerVars, last, crash>>

Next ==
  \/ \E a \in Apps :
       \/ ConnectChecksum(a) \/ ConnectLookup(a) \/ ConnectStart(a)
       \/ ReadBegin(a) \/ ReadReceive(a) \/ ReadClosed(a) \/ ReadCancel(a)
       \/ ReadReturn(a)
       \/ CloseChannel(a) \/ CloseChecksum(a) \/ CloseLookup(a)
       \/ CloseStop(a) \/ CloseWait(a)
  \/ \E w \in Workers : Callback(w)
  \/ Environment

Spec == Init /\ [][Next]_vars

\* Once Close has begun, the goroutine running it is scheduled until it
\* blocks: each later step of Close is taken when it stays enabled.
InClose(a) == apc[a] \in {"closeChecksum", "closeLookup", "closeStop",
                          "closeWait"}
CloseProgress(a) ==
  \/ CloseChecksum(a) \/ CloseLookup(a) \/ CloseStop(a) \/ CloseWait(a)

FairSpec == Spec /\ \A a \in Apps : WF_vars(CloseProgress(a))

-----------------------------------------------------------------------------
(* Read returns the messages of each engine session in the order the      *)
(* callbacks were made, none skipped and none twice: the callback blocks  *)
(* on the unbuffered channel until a Read takes its event, and a          *)
(* cancelled Read takes nothing (spec section 4.4).                        *)
InOrderNoLoss ==
  [][\A a \in Apps, w \in Workers :
       last'[a][w] # last[a][w] => last'[a][w].seq = last[a][w].seq + 1]_vars

(* The payload Read renders is the message the engine passed to the       *)
(* callback, even when the engine has reused its buffer for the next       *)
(* message before the Read renders it (deep copy in NewQuickfixEvent).     *)
PayloadIntact ==
  \A a \in Apps, w \in Workers : last[a][w].payload \in {0, last[a][w].seq}

(* Closing an input never makes a callback of an engine send on a closed   *)
(* channel (spec section 4.4: stop the engine, then close the channel).    *)
NoSendOnClosedChannel == crash # "send on closed channel"

\* Close of a has returned
Closed(a) == closing[a] /\ apc[a] \in {"new", "idle", "reading", "received"}

(* No engine keeps running once every input that started it has been       *)
(* closed (spec section 1: an engine never stopped is a resource leak).    *)
EngineReleased ==
  \A k \in Digests :
    running[k] => \E a \in Apps : ahandle[a] = k /\ ~Closed(a)

(* Close returns (or the process has panicked): fixapp.Stop, which holds  *)
(* fixappstorelock while the engine stops, is never left waiting for a    *)
(* callback, so no Close, Connect or Close of another input hangs behind  *)
(* it (spec section 5: a callback blocks until its event is consumed).    *)
CloseReturns == \A a \in Apps : InClose(a) ~> (~InClose(a) \/ ~Alive)

=============================================================================
