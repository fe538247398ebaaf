---------------------------- MODULE VenueAccess -----------------------------
(***************************************************************************)
(* The calls of a client, through the worker's proxies and an adapter, to  *)
(* the venue: the RPCs of TradingService, MarketDataService and            *)
(* VenueOpService other than order submission (SessionControl), and        *)
(* ReconcileState with the adapter's sync_state.                           *)
(*                                                                         *)
(*   client  --  the native TerminalClient (ten-second deadline), the      *)
(*               browser's client_wasm (no deadline) or a strategy on an   *)
(*               SDK, the only one whose requests carry a session id       *)
(*   proxy   --  session/proxy.rs: capability, session gate, validation,   *)
(*               one port call, map_port, conversion of the reply          *)
(*   adapter --  adapters/mock.rs, an in-process venue under one lock, or  *)
(*               adapters/remote.rs, a round trip to a venue that may      *)
(*               refuse, answer late or never, and send an ill-formed      *)
(*               reply                                                     *)
(*                                                                         *)
(* A trigger is named by its position on the venue, an anonymous transfer  *)
(* by its call.  All requests are for one exchange and one symbol.         *)
(***************************************************************************)
EXTENDS Integers, Sequences, FiniteSets, SequencesExt

CONSTANTS
    Calls,    \* the calls a client makes, each used once
    None,     \* nothing: no request yet, no answer yet, a field left unset
    Key,      \* a client_transfer_id
    Orders    \* the orders resting on the venue at the start

ASSUME NoneAssumption == None \notin Calls \cup {Key} \cup Orders

VARIABLES
    client,   \* who calls: "terminal", "wasm" or "sdk"
    backend,  \* "mock" or "remote"
    caps,     \* the capabilities the backend declared
    session,  \* the session of an "sdk" client: its state, and the one it began with
    venue,    \* what the venue holds
    call,     \* the state of every call
    late      \* calls whose caller timed out before the venue saw them

vars == <<client, backend, caps, session, venue, call, late>>

-----------------------------------------------------------------------------
(* The ports, and what each client can ask of them.                        *)

TradingRpcs == {"cancel_order", "cancel_all_orders", "fetch_open_orders", "get_account",
    "get_positions", "get_order_history", "get_closed_positions", "close_position",
    "close_all_positions", "modify_position"}

MarketRpcs == {"list_symbols", "search_symbols", "list_tickers", "get_candles",
    "fetch_ticker", "fetch_order_book"}

FundingRpcs == {"fetch_funding_rate", "list_funding_rates", "fetch_funding_rate_history"}

TriggerRpcs == {"create_trigger_order", "cancel_trigger_order", "list_trigger_orders"}

OpRpcs == {"list_venue_ops", "describe_venue_op", "invoke_venue_op"}

WalletRpcs == {"fetch_ledger_entries", "transfer"}

Capabilities == {"funding", "triggers", "ops", "wallet"}

MarketRequests == [rpc : MarketRpcs]

\* "perp" has funding, "spot" has none, "" is a blank symbol.
FundingRequests == [rpc : {"fetch_funding_rate"}, symbol : {"perp", "spot", ""}]
    \cup [rpc : {"fetch_funding_rate_history"}, symbol : {"perp", ""}]
    \cup [rpc : {"list_funding_rates"}]

OrderRequests == [rpc : {"cancel_order"}, id : Orders \cup {None}]
    \cup [rpc : {"cancel_all_orders", "fetch_open_orders"}]

AccountRequests == [rpc : {"get_account", "get_positions", "get_order_history",
    "get_closed_positions", "close_position", "close_all_positions", "modify_position"}]

\* sized: quantity and trigger price are present and positive.
TriggerRequests ==
    [rpc : {"create_trigger_order"}, side : {"Buy", "Sell", "Unspecified"}, sized : {TRUE}]
    \cup [rpc : {"create_trigger_order"}, side : {"Sell"}, sized : {FALSE}]
    \cup [rpc : {"cancel_trigger_order"}, id : {1, 2}]
    \cup [rpc : {"list_trigger_orders"}]

WalletRequests == [rpc : {"transfer"}, key : {Key}, amount : {0, 1, 2}]
    \cup [rpc : {"transfer"}, key : {None}, amount : {1}]
    \cup [rpc : {"fetch_ledger_entries"}]

OpRequests == [rpc : {"describe_venue_op", "invoke_venue_op"},
               op : {"account.transfer", "wallet.withdraw", ""}]
    \cup [rpc : {"list_venue_ops"}]

\* client_wasm.rs has the market and trading calls, no triggers, wallet or ops.
WasmMarketRequests == MarketRequests

WasmFundingRequests == FundingRequests

WasmOrderRequests == OrderRequests

WasmAccountRequests == AccountRequests

ReconcileRequests == [rpc : {"reconcile_state"}]

\* A bound: lists, which change nothing, are asked for by the terminal.
Listings == {"list_trigger_orders", "fetch_ledger_entries"}

Requests ==
    CASE client = "terminal" -> MarketRequests \cup FundingRequests \cup OrderRequests
             \cup AccountRequests \cup TriggerRequests \cup WalletRequests \cup OpRequests
      [] client = "wasm" -> WasmMarketRequests \cup WasmFundingRequests
             \cup WasmOrderRequests \cup WasmAccountRequests
      [] client = "sdk" -> ReconcileRequests \cup [rpc : {"cancel_all_orders"}]
             \cup {r \in TriggerRequests \cup WalletRequests : r.rpc \notin Listings}

\* Requests that change nothing another call sees and see nothing another call
\* changes.  A bound of the model: such a call is the only one of its behaviour.
Independent(r) ==
    \/ r.rpc \in MarketRpcs \cup FundingRpcs \cup OpRpcs
    \/ r.rpc \in TradingRpcs \ {"cancel_order", "cancel_all_orders", "fetch_open_orders"}
    \/ r.rpc = "create_trigger_order" /\ (r.side = "Unspecified" \/ ~r.sized)
    \/ r.rpc = "transfer" /\ r.amount = 0
    \/ r.rpc = "cancel_order" /\ r.id = None

-----------------------------------------------------------------------------
(* Errors on their way to the client: PortError, Connect code, HTTP status. *)

Fault(kind) == [kind |-> kind, status |-> 0, body |-> None]

Rpc(status) == [kind |-> "Rpc", status |-> status, body |-> None]

Good(body) == [kind |-> "Ok", status |-> 0, body |-> body]

\* The gRPC codes rpc_code_to_connect knows; out_of_range (11) becomes
\* invalid_argument and unknown (2), like any other number, internal.
GrpcCodes == [n \in 1 .. 16 |->
    <<"canceled", "internal", "invalid_argument", "deadline_exceeded", "not_found",
      "already_exists", "permission_denied", "resource_exhausted", "failed_precondition",
      "aborted", "invalid_argument", "unimplemented", "internal", "unavailable",
      "data_loss", "unauthenticated">>[n]]

RpcCodeToConnect(code) == IF code \in DOMAIN GrpcCodes THEN GrpcCodes[code] ELSE "internal"

TransportRefused(err) ==
    CASE err.kind \in {"InvalidArgument", "MissingField", "Transport"} -> "invalid_argument"
      [] err.kind = "NotFound" -> "not_found"
      [] err.kind = "Unsupported" -> "unimplemented"
      [] err.kind = "Rpc" -> RpcCodeToConnect(err.status)

MapPort(err) ==
    CASE err.kind \in {"InvalidArgument", "MissingField"} -> "invalid_argument"
      [] err.kind = "NotFound" -> "not_found"
      [] err.kind = "Unsupported" -> "unimplemented"
      [] err.kind = "Rpc" -> RpcCodeToConnect(err.status)
      [] err.kind = "Transport" -> "internal"

\* The Connect protocol's table, for the codes that occur.
HttpStatus(code) ==
    CASE code \in {"invalid_argument", "failed_precondition"} -> 400
      [] code = "not_found" -> 404
      [] code = "unimplemented" -> 501
      [] code = "internal" -> 500

-----------------------------------------------------------------------------
(* Conversions.  A trigger is [id, is_buy, status] in the ports and        *)
(* [id, side, status] on the wire; a ledger row carries a signed amount in *)
(* the ports, and a direction besides on the wire.                         *)

SideDefaulted(w) == [id |-> w.id, is_buy |-> TRUE, status |-> w.status]

TriggerOrderToPort(w) == [id |-> w.id, is_buy |-> w.side = "Buy", status |-> w.status]

TriggerOrderToUnified(t) ==
    [id |-> t.id, side |-> IF t.is_buy THEN "Buy" ELSE "Sell", status |-> t.status]

LedgerEntryToPort(e) ==
    [id |-> e.id, amount |-> IF e.direction = "out" THEN -e.amount ELSE e.amount]

LedgerEntryToUnified(e) ==
    [id |-> e.id, direction |-> IF e.amount < 0 THEN "out" ELSE "in", amount |-> e.amount]

\* An absent mark price stays absent.
FundingRateToPort(w) == [symbol |-> w.symbol, mark |-> w.mark]

FundingSnapshotToUnified(f) == [symbol |-> f.symbol, mark |-> f.mark]

\* param_type_from_wire: a discriminant this build does not know is Unspecified.
OpDescriptorToPort(w) ==
    [name |-> w.name, mutating |-> w.mutating,
     type |-> IF w.type = "Unknown" THEN "Unspecified" ELSE w.type]

OpDescriptorToWire(d) == [name |-> d.name, mutating |-> d.mutating, type |-> d.type]

Image(Op(_), S) == {Op(x) : x \in S}

-----------------------------------------------------------------------------
(* The mock venue.  Each handler runs under one lock and yields the venue  *)
(* afterwards and the port's result.                                       *)

Same(v, res) == [venue |-> v, res |-> res]

OpenOrders(v) == {o \in Orders : v.orders[o] = "Open"}

CancelAllTriggers(v) == [v EXCEPT
    !.orders = [o \in Orders |-> IF @[o] = "Open" THEN "Canceled" ELSE @[o]],
    !.triggers = [i \in DOMAIN @ |-> [@[i] EXCEPT !.status = IF @ = "Open" THEN "Canceled" ELSE @]]]

\* Orders only: trigger orders live in a table of their own.
CancelAll(v) ==
    [v EXCEPT !.orders = [o \in Orders |-> IF @[o] = "Open" THEN "Canceled" ELSE @[o]]]

MockOrders(v, r) ==
    CASE r.rpc = "cancel_order" ->
           IF r.id \in Orders
           THEN [venue |-> [v EXCEPT !.orders[r.id] = "Canceled"], res |-> Good(r.id)]
           ELSE Same(v, Fault("InvalidArgument"))
      [] r.rpc = "cancel_all_orders" -> [venue |-> CancelAll(v), res |-> Good(OpenOrders(v))]
      [] r.rpc = "fetch_open_orders" -> Same(v, Good(OpenOrders(v)))

\* The mock holds no position to close or to modify.
MockAccount(v, r) ==
    Same(v, IF r.rpc \in {"close_position", "modify_position"}
            THEN Fault("MissingField") ELSE Good("data"))

MockMarket(v, r) == Same(v, Good("data"))

\* funding_symbols narrows the contracts; left empty, every symbol has a rate.
FundingUniverse(v) == IF v.funding_symbols = {} THEN {"perp", "spot"} ELSE v.funding_symbols

MockFunding(v, r) ==
    LET Rates(symbols) == {[symbol |-> s, mark |-> v.mark] : s \in symbols}
    IN  CASE r.rpc = "fetch_funding_rate" ->
               Same(v, IF v.funding_symbols = {} \/ r.symbol \in v.funding_symbols
                       THEN Good(Rates({r.symbol})) ELSE Fault("NotFound"))
          [] r.rpc = "list_funding_rates" -> Same(v, Good(Rates(FundingUniverse(v))))
          [] r.rpc = "fetch_funding_rate_history" -> Same(v, Good("data"))

TriggerRecord(v, i) == [id |-> i, is_buy |-> v.triggers[i].is_buy, status |-> v.triggers[i].status]

MockTriggers(v, r) ==
    CASE r.rpc = "create_trigger_order" ->
           IF ~r.sized THEN Same(v, Fault("InvalidArgument"))
           ELSE LET w == [v EXCEPT !.triggers = Append(@, [is_buy |-> r.is_buy, status |-> "Open"])]
                IN  [venue |-> w, res |-> Good(TriggerRecord(w, Len(w.triggers)))]
      [] r.rpc = "cancel_trigger_order" ->
           IF r.id \notin DOMAIN v.triggers THEN Same(v, Fault("NotFound"))
           ELSE IF v.triggers[r.id].status # "Open" THEN Same(v, Fault("InvalidArgument"))
           ELSE LET w == [v EXCEPT !.triggers[r.id].status = "Canceled"]
                IN  [venue |-> w, res |-> Good(TriggerRecord(w, r.id))]
      [] r.rpc = "list_trigger_orders" ->
           Same(v, Good({TriggerRecord(v, i) : i \in DOMAIN v.triggers}))

Row(m) == [id |-> m.id, amount |-> -m.amount]

Moved(v, key) == {i \in DOMAIN v.moved : v.moved[i].id = key}

TransferId(c, r) == IF r.key = None THEN c ELSE r.key

Move(v, c, r) ==
    LET m == [id |-> TransferId(c, r), amount |-> r.amount]
    IN  [venue |-> [v EXCEPT !.moved = Append(@, m)], res |-> Good(Row(m))]

MoveTwice(v, c, r) ==
    IF r.rpc = "transfer" THEN Move(v, c, r)
    ELSE Same(v, Good({v.deposit} \cup {Row(v.moved[i]) : i \in DOMAIN v.moved}))

\* Idempotency first: a key the venue has seen returns the first receipt.
MockWallet(v, c, r) ==
    CASE r.rpc = "transfer" ->
           IF r.amount <= 0 THEN Same(v, Fault("InvalidArgument"))
           ELSE IF r.key # None /\ Moved(v, r.key) # {}
           THEN Same(v, Good(Row(v.moved[CHOOSE i \in Moved(v, r.key) : TRUE])))
           ELSE Move(v, c, r)
      [] r.rpc = "fetch_ledger_entries" ->
           Same(v, Good({v.deposit} \cup {Row(v.moved[i]) : i \in DOMAIN v.moved}))

MockOpTable ==
    {[name |-> "account.balance", mutating |-> FALSE, type |-> "String"],
     [name |-> "margin.borrow", mutating |-> TRUE, type |-> "Decimal"],
     [name |-> "wallet.convert", mutating |-> TRUE, type |-> "String"],
     [name |-> "account.transfer", mutating |-> TRUE, type |-> "Decimal"]}

\* Invoking is a dry run; describing looks the name up in the list.
MockOps(v, r) ==
    CASE r.rpc = "list_venue_ops" -> Same(v, Good(v.ops))
      [] r.rpc = "describe_venue_op" ->
           LET found == {d \in v.ops : d.name = r.op}
           IN  Same(v, IF found = {} THEN Fault("NotFound") ELSE Good(found))
      [] r.rpc = "invoke_venue_op" ->
           Same(v, IF \E d \in v.ops : d.name = r.op THEN Good("data") ELSE Fault("Unsupported"))

Mock(v, c, r) ==
    CASE r.rpc \in {"cancel_order", "cancel_all_orders", "fetch_open_orders"} -> MockOrders(v, r)
      [] r.rpc \in TradingRpcs \ {"cancel_order", "cancel_all_orders", "fetch_open_orders"}
           -> MockAccount(v, r)
      [] r.rpc \in MarketRpcs -> MockMarket(v, r)
      [] r.rpc \in FundingRpcs -> MockFunding(v, r)
      [] r.rpc \in TriggerRpcs -> MockTriggers(v, r)
      [] r.rpc \in WalletRpcs -> MockWallet(v, c, r)
      [] r.rpc \in OpRpcs -> MockOps(v, r)

-----------------------------------------------------------------------------
(* The venue behind the remote adapter: it serves the same contract, which *)
(* the mock stands for, answers its own errors with an HTTP status, may    *)
(* refuse anything (429), knows positions, and may answer the cancel of a  *)
(* trigger that has fired with the record as it is.                        *)

Remote(v, c, r) ==
    LET m == Mock(v, c, r)
        gone == r.rpc = "cancel_order" /\ r.id \in Orders \ OpenOrders(v)
        fired == {i \in DOMAIN v.triggers : v.triggers[i].status = "Triggered"}
    IN  {Same(v, Rpc(429))}
        \cup {IF gone THEN Same(v, Rpc(400))
              ELSE IF m.res.kind = "Ok" THEN m
              ELSE Same(v, Rpc(HttpStatus(MapPort(m.res))))}
        \cup (IF r.rpc \in {"close_position", "modify_position"} THEN {Same(v, Good("data"))} ELSE {})
        \cup (IF r.rpc = "cancel_trigger_order" /\ r.id \in fired
              THEN {Same(v, Good(TriggerRecord(v, r.id)))} ELSE {})

\* Its messages: a trigger has a side, a ledger row a direction and, next to it,
\* a magnitude or, from a worker that is itself the venue, the signed amount.
WireTrigger(t) == [id |-> t.id, side |-> IF t.is_buy THEN "Buy" ELSE "Sell", status |-> t.status]

WireRow(e, shape) ==
    [id |-> e.id, direction |-> IF e.amount < 0 THEN "out" ELSE "in",
     amount |-> IF e.amount < 0 /\ shape # "signed" THEN -e.amount ELSE e.amount]

Wire(r, body, shape) ==
    CASE r.rpc \in {"create_trigger_order", "cancel_trigger_order"} -> WireTrigger(body)
      [] r.rpc = "list_trigger_orders" -> Image(WireTrigger, body)
      [] r.rpc = "transfer" -> WireRow(body, shape)
      [] r.rpc = "fetch_ledger_entries" -> {WireRow(e, shape) : e \in body}
      [] OTHER -> body

-----------------------------------------------------------------------------
(* The remote adapter: what it checks before it sends, and what it makes   *)
(* of a reply that is whole, lacks its one record, signs its amounts or is *)
(* ill-formed.                                                             *)

Sendable(r) ==
    CASE r.rpc = "create_trigger_order" -> r.sized
      [] r.rpc = "transfer" -> r.amount > 0
      [] r.rpc \in {"fetch_funding_rate", "fetch_funding_rate_history"} -> r.symbol # ""
      [] OTHER -> TRUE

Unsent(r) == IF r.rpc \in FundingRpcs THEN Fault("MissingField") ELSE Fault("InvalidArgument")

\* RPCs whose reply holds one optional record, and those whose reply can
\* carry an unknown side or status, or lack a decimal.
SingleRecord == {"cancel_order", "get_account", "close_position", "modify_position",
    "fetch_ticker", "fetch_order_book", "fetch_funding_rate", "create_trigger_order",
    "cancel_trigger_order", "describe_venue_op", "invoke_venue_op", "transfer"}

Shapes(r) == {"whole"}
    \cup (IF r.rpc \in SingleRecord THEN {"absent"} ELSE {})
    \cup (IF r.rpc \in WalletRpcs THEN {"signed"} ELSE {})
    \cup (IF r.rpc \in TriggerRpcs \cup WalletRpcs \cup FundingRpcs THEN {"garbled"} ELSE {})

CancelEchoed(r, w) == [id |-> r.id, is_buy |-> w.side = "Buy", status |-> "Canceled"]

\* The venue's own record, never one rebuilt from the request.
CanceledToPort(r, w) == TriggerOrderToPort(w)

ToPort(r, body) ==
    CASE r.rpc = "create_trigger_order" -> TriggerOrderToPort(body)
      [] r.rpc = "cancel_trigger_order" -> CanceledToPort(r, body)
      [] r.rpc = "list_trigger_orders" -> Image(TriggerOrderToPort, body)
      [] r.rpc = "transfer" -> LedgerEntryToPort(body)
      [] r.rpc = "fetch_ledger_entries" -> Image(LedgerEntryToPort, body)
      [] r.rpc \in {"fetch_funding_rate", "list_funding_rates"} -> Image(FundingRateToPort, body)
      [] r.rpc \in {"list_venue_ops", "describe_venue_op"} -> Image(OpDescriptorToPort, body)
      [] OTHER -> body

Absent(r) ==
    CASE r.rpc = "create_trigger_order" -> Fault("Transport")
      [] r.rpc \in {"fetch_funding_rate", "describe_venue_op"} -> Fault("NotFound")
      [] r.rpc \in {"get_account", "close_position", "modify_position", "transfer"} -> Good(None)
      [] OTHER -> Fault("MissingField")

Garbled(r) ==
    IF r.rpc \in TriggerRpcs THEN Fault("InvalidArgument") ELSE Fault("MissingField")

\* The port's result, from a remote reply.
Received(r, reply, shape) ==
    CASE reply.kind # "Ok" -> reply
      [] reply.kind = "Ok" /\ shape \in {"whole", "signed"} ->
           Good(ToPort(r, Wire(r, reply.body, shape)))
      [] reply.kind = "Ok" /\ shape = "absent" -> Absent(r)
      [] reply.kind = "Ok" /\ shape = "garbled" -> Garbled(r)

-----------------------------------------------------------------------------
(* The proxies: first refusal wins, then one port call.                    *)

\* trigger_request_from_unified: a side other than Buy or Sell is refused.
TriggerRequestFromUnified(r) == [rpc |-> r.rpc, is_buy |-> r.side = "Buy", sized |-> r.sized]

PortRequest(r) == IF r.rpc = "create_trigger_order" THEN TriggerRequestFromUnified(r) ELSE r

Capability(r) ==
    CASE r.rpc \in FundingRpcs -> {"funding"}
      [] r.rpc \in TriggerRpcs -> {"triggers"}
      [] r.rpc \in WalletRpcs -> {"wallet"}
      [] r.rpc \in OpRpcs -> {"ops"}
      [] OTHER -> {}

Gated(r) == r.rpc \in {"create_trigger_order", "transfer"}

\* authorize_order_submission; a request without a session id is not gated.
GateSubmission(r) == client = "sdk" /\ Gated(r) => session.state = "Active"

NotImplemented(r) == ~ (Capability(r) \subseteq caps)

\* The code the proxy, or the adapter before it sends, answers; "none" to go on.
Refusal(r) ==
    CASE r.rpc \in {"describe_venue_op", "invoke_venue_op"} /\ r.op = "" -> "invalid_argument"
      [] OTHER ->
         IF NotImplemented(r) THEN "unimplemented"
         ELSE IF ~ GateSubmission(r) THEN "failed_precondition"
         ELSE IF r.rpc = "create_trigger_order" /\ r.side \notin {"Buy", "Sell"}
              THEN "invalid_argument"
         ELSE IF r.rpc = "reconcile_state" /\ session.state = "Ended" THEN "invalid_argument"
         ELSE IF backend = "remote" /\ ~ Sendable(r) THEN MapPort(Unsent(r))
         ELSE "none"

\* What the proxy makes of the port's result, and the client of that.
ToUnified(r, body) ==
    CASE body = None -> None
      [] r.rpc \in {"create_trigger_order", "cancel_trigger_order"} -> TriggerOrderToUnified(body)
      [] r.rpc = "list_trigger_orders" -> Image(TriggerOrderToUnified, body)
      [] r.rpc = "transfer" -> LedgerEntryToUnified(body)
      [] r.rpc = "fetch_ledger_entries" -> Image(LedgerEntryToUnified, body)
      [] r.rpc \in {"fetch_funding_rate", "list_funding_rates"} ->
           Image(FundingSnapshotToUnified, body)
      [] r.rpc \in {"list_venue_ops", "describe_venue_op"} -> Image(OpDescriptorToWire, body)
      [] OTHER -> body

Told(status, ans) == [status |-> status, ans |-> ans]

\* A missing account or position is the client's own MissingField error.
Proxied(r, res) ==
    IF res.kind # "Ok" THEN Told(HttpStatus(MapPort(res)), None)
    ELSE IF res.body = None /\ r.rpc # "transfer" THEN Told(0, None)
    ELSE Told(200, ToUnified(r, res.body))

-----------------------------------------------------------------------------
(* A call: checked by the proxy, the gate being read once ("admitted"),    *)
(* put on the wire by the remote adapter ("sent"), executed by the venue   *)
(* ("replied"), answered ("done").  Anything may happen in between, the    *)
(* end of the session included.  told is what the client was told; the     *)
(* worker goes on when the client has given up.                            *)

Idle == [pc |-> "idle", req |-> None, ran |-> FALSE, res |-> None, shape |-> "whole", told |-> None]

Settle(k, told) == [k EXCEPT !.pc = "done", !.res = None, !.told = IF @ = None THEN told ELSE @]

Begin(r) ==
    IF r.rpc = "reconcile_state" /\ session.state = "Attached" THEN "Syncing" ELSE session.state

Issue(c) ==
    /\ call[c].pc = "idle"
    /\ \A d \in Calls : d < c => call[d].pc # "idle"
    /\ \E r \in Requests :
         /\ \A d \in Calls : d < c => ~ Independent(r) /\ ~ Independent(call[d].req)
         /\ LET k == [call[c] EXCEPT !.req = r]
            IN  IF Refusal(r) # "none"
                THEN /\ call' = [call EXCEPT ![c] = Settle(k, Told(HttpStatus(Refusal(r)), None))]
                     /\ UNCHANGED session
                ELSE /\ call' = [call EXCEPT ![c] = [k EXCEPT !.pc = "admitted"]]
                     /\ session' = [session EXCEPT !.state = Begin(r)]
    /\ UNCHANGED <<client, backend, caps, venue, late>>

Send(c) ==
    /\ backend = "remote" /\ call[c].pc = "admitted"
    /\ call' = [call EXCEPT ![c].pc = "sent"]
    /\ UNCHANGED <<client, backend, caps, session, venue, late>>

Reply(c, o, shape) ==
    /\ venue' = o.venue
    /\ call' = [call EXCEPT ![c].pc = "replied", ![c].ran = o.res.kind = "Ok",
                            ![c].res = o.res, ![c].shape = shape]
    /\ UNCHANGED <<client, backend, caps, session, late>>

ExecuteMock(c) ==
    /\ backend = "mock" /\ call[c].pc = "admitted" /\ call[c].req.rpc # "reconcile_state"
    /\ Reply(c, Mock(venue, c, PortRequest(call[c].req)), "whole")

ExecuteRemote(c) ==
    /\ backend = "remote" /\ call[c].pc = "sent" /\ call[c].req.rpc # "reconcile_state"
    /\ \E o \in Remote(venue, c, PortRequest(call[c].req)) :
         \E shape \in (IF o.res.kind = "Ok" THEN Shapes(call[c].req) ELSE {"whole"}) :
            Reply(c, o, shape)

\* A request the worker gave up on still reaches the venue.
ExecuteLate(c) ==
    /\ c \in late
    /\ \E o \in Remote(venue, c, PortRequest(call[c].req)) :
         /\ venue' = o.venue
         /\ call' = [call EXCEPT ![c].ran = o.res.kind = "Ok"]
    /\ late' = late \ {c}
    /\ UNCHANGED <<client, backend, caps, session>>

Positions(v) == {o \in Orders : v.orders[o] = "Filled"}

SyncMock(c) ==
    /\ backend = "mock" /\ call[c].pc = "admitted" /\ call[c].req.rpc = "reconcile_state"
    /\ call' = [call EXCEPT ![c].pc = "replied",
         ![c].res = Good([start |-> venue.orders, positions |-> {}, open |-> OpenOrders(venue)])]
    /\ UNCHANGED <<client, backend, caps, session, venue, late>>

Snapshot == [start |-> venue.orders, positions |-> {}, open |-> {}]

OrdersFirst(c) ==
    \/ /\ call[c].pc = "sent"
       /\ call' = [call EXCEPT ![c].pc = "account", ![c].res = Good(Snapshot)]
    \/ /\ call[c].pc = "account"
       /\ call' = [call EXCEPT ![c].pc = "positions", ![c].res.body.open = OpenOrders(venue)]
    \/ /\ call[c].pc = "positions"
       /\ call' = [call EXCEPT ![c].pc = "replied", ![c].res.body.positions = Positions(venue)]

\* sync_state of the remote adapter: account, then positions, then open orders.
NextRead(c) ==
    \/ /\ call[c].pc = "sent"
       /\ call' = [call EXCEPT ![c].pc = "account", ![c].res = Good(Snapshot)]
    \/ /\ call[c].pc = "account"
       /\ call' = [call EXCEPT ![c].pc = "positions", ![c].res.body.positions = Positions(venue)]
    \/ /\ call[c].pc = "positions"
       /\ call' = [call EXCEPT ![c].pc = "replied", ![c].res.body.open = OpenOrders(venue)]

\* Any of the three reads may be refused, or the account be absent.
SyncRemote(c) ==
    /\ backend = "remote" /\ call[c].req # None /\ call[c].req.rpc = "reconcile_state"
    /\ \/ NextRead(c)
       \/ /\ call[c].pc \in {"sent", "account", "positions"}
          /\ call' = [call EXCEPT ![c].pc = "replied", ![c].res = Rpc(429)]
    /\ UNCHANGED <<client, backend, caps, session, venue, late>>

Answer(c) ==
    /\ call[c].pc = "replied" /\ call[c].req.rpc # "reconcile_state"
    /\ call' = [call EXCEPT ![c] = Settle(@, Proxied(@.req,
         IF backend = "mock" THEN @.res ELSE Received(@.req, @.res, @.shape)))]
    /\ UNCHANGED <<client, backend, caps, session, venue, late>>


\* A failed read leaves the session Syncing; an ended session stays ended.
CompleteReconcile(c) ==
    /\ call[c].pc = "replied" /\ call[c].req.rpc = "reconcile_state"
    /\ LET ok == call[c].res.kind = "Ok"
       IN  /\ session' = [session EXCEPT !.state = IF ok /\ @ = "Syncing" THEN "Active" ELSE @]
           /\ call' = [call EXCEPT ![c] = Settle(@,
                CASE ~ok -> Told(500, None)
                  [] ok /\ session.state = "Ended" -> Told(400, None)
                  [] ok /\ session.state # "Ended" -> Told(200, @.res.body))]
    /\ UNCHANGED <<client, backend, caps, venue, late>>

TimeOutReplied(c) ==
    /\ backend = "remote" /\ call[c].pc = "replied"
    /\ call' = [call EXCEPT ![c] = Settle(@, Told(HttpStatus(MapPort(Fault("Transport"))), None))]
    /\ UNCHANGED <<client, backend, caps, session, venue, late>>

\* UNARY_TIMEOUT of the adapter's round trip, or its connection breaking.
TimeOut(c) ==
    /\ backend = "remote" /\ call[c].pc \in {"sent", "account", "positions", "replied"}
    /\ call' = [call EXCEPT ![c] = Settle(@, Told(HttpStatus(MapPort(Fault("Transport"))), None))]
    /\ late' = IF call[c].pc = "sent" /\ call[c].req.rpc # "reconcile_state"
               THEN late \cup {c} ELSE late
    /\ UNCHANGED <<client, backend, caps, session, venue>>

\* UNARY_TIMEOUT of the native client; client_wasm has none, that of an SDK is not modelled.
GiveUp(c) ==
    /\ client = "terminal" /\ call[c].pc \notin {"idle", "done"} /\ call[c].told = None
    /\ call' = [call EXCEPT ![c].told = Told(0, None)]
    /\ UNCHANGED <<client, backend, caps, session, venue, late>>

\* Stop or kill switch; SessionControl has the details.  Orders only.
EndSession ==
    /\ client = "sdk" /\ session.state # "Ended"
    /\ session' = [session EXCEPT !.state = "Ended"]
    /\ venue' \in {venue, CancelAll(venue)}
    /\ UNCHANGED <<client, backend, caps, call, late>>

\* The market, on a real venue.  A bound: it moves once a call is about what it moves.
About(rpcs) == \E c \in Calls : call[c].req # None /\ call[c].req.rpc \in rpcs

Fill(o) ==
    /\ backend = "remote" /\ venue.orders[o] = "Open"
    /\ About({"cancel_order", "cancel_all_orders", "fetch_open_orders", "reconcile_state"})
    /\ venue' = [venue EXCEPT !.orders[o] = "Filled"]
    /\ UNCHANGED <<client, backend, caps, session, call, late>>

Fire(i) ==
    /\ backend = "remote" /\ venue.triggers[i].status = "Open" /\ About(TriggerRpcs)
    /\ venue' = [venue EXCEPT !.triggers[i].status = "Triggered"]
    /\ UNCHANGED <<client, backend, caps, session, call, late>>

\* A remote venue may report no mark, and an op with a type this build does not know.
Init ==
    /\ client \in {"terminal", "wasm", "sdk"}
    /\ backend \in {"mock", "remote"}
    /\ caps \in IF backend = "mock" THEN {Capabilities, {}} ELSE {Capabilities}
    /\ session \in {[state |-> st, start |-> st] :
                      st \in IF client = "sdk" THEN {"Attached", "Active"} ELSE {"Active"}}
    /\ venue \in [orders : {[o \in Orders |-> "Open"]},
                  triggers : {<<[is_buy |-> FALSE, status |-> "Open"]>>},
                  moved : {<<>>},
                  deposit : {[id |-> 0, amount |-> 5]},
                  mark : IF backend = "mock" THEN {7} ELSE {None},
                  funding_symbols : IF backend = "mock" /\ client # "sdk" THEN {{}, {"perp"}}
                                    ELSE {{"perp"}},
                  ops : IF backend = "mock" THEN {MockOpTable}
                        ELSE {MockOpTable \cup {[name |-> "vip.tier", mutating |-> TRUE,
                                                 type |-> "Unknown"]}}]
    /\ call = [c \in Calls |-> Idle]
    /\ late = {}

Worker(c) == Send(c) \/ ExecuteMock(c) \/ SyncMock(c) \/ Answer(c) \/ CompleteReconcile(c)

Next ==
    \/ \E c \in Calls : \/ Issue(c) \/ Send(c) \/ ExecuteRemote(c) \/ ExecuteLate(c) \/ SyncRemote(c)
                        \/ TimeOut(c) \/ GiveUp(c)
                        \/ ExecuteMock(c) \/ SyncMock(c) \/ Answer(c) \/ CompleteReconcile(c)
    \/ EndSession
    \/ \E o \in Orders : Fill(o)
    \/ \E i \in DOMAIN venue.triggers : Fire(i)

\* The worker's own steps and its timer are fair; the venue, the client and
\* the market are not.
Fairness == \A c \in Calls : WF_vars(Worker(c)) /\ WF_vars(TimeOut(c))

-----------------------------------------------------------------------------
(* Properties.                                                             *)

Answered(c) == call[c].told # None /\ call[c].told.status = 200

\* Two transfers with one client_transfer_id, in any interleaving, after a lost
\* reply or with another amount, move funds once, and every caller that is
\* answered is told of that one movement (WalletGateway::transfer), with its
\* amount unless the venue signs what it marks as "out".
FundsMoveOnce ==
    /\ \A i, j \in DOMAIN venue.moved : venue.moved[i].id = venue.moved[j].id => i = j
    /\ \A c \in Calls :
         Answered(c) /\ call[c].req.rpc = "transfer" /\ call[c].told.ans # None =>
            \E i \in DOMAIN venue.moved :
               /\ venue.moved[i].id = TransferId(c, call[c].req)
               /\ call[c].told.ans.id = venue.moved[i].id
               /\ call[c].shape # "signed" =>
                    call[c].told.ans = LedgerEntryToUnified(Row(venue.moved[i]))

\* An error a client may take for "nothing happened" (invalid_argument,
\* failed_precondition, not_found, unimplemented) is never followed by the call
\* taking effect, however late, as long as the venue's reply was well formed:
\* a timeout or a broken connection is reported as internal (map_port).
RefusalsAreDefinite ==
    \A c \in Calls :
       /\ call[c].told # None /\ call[c].told.status \in {400, 404, 501}
       /\ call[c].shape \in {"whole", "signed"}
       => ~ call[c].ran /\ c \notin late

SameTrigger(w) == w.side = IF venue.triggers[w.id].is_buy THEN "Buy" ELSE "Sell"

\* The conversions of the adapter and the proxy, one after the other, keep what
\* a strategy acts on: a stop's side, the sign and direction of a ledger row
\* that came as direction and magnitude, whether an op is mutating, and that a
\* mark price is not reported.
ConversionsKeep ==
    \A c \in Calls : Answered(c) =>
       LET r == call[c].req
           ans == call[c].told.ans
       IN  CASE r.rpc = "create_trigger_order" -> SameTrigger(ans) /\ ans.side = r.side
             [] r.rpc = "cancel_trigger_order" -> SameTrigger(ans) /\ ans.id = r.id
             [] r.rpc = "list_trigger_orders" -> \A w \in ans : SameTrigger(w)
             [] r.rpc = "fetch_ledger_entries" /\ call[c].shape # "signed" ->
                  \A w \in ans : IF w.id = venue.deposit.id THEN w.direction = "in" /\ w.amount > 0
                                 ELSE w.direction = "out" /\ w.amount < 0
             [] r.rpc \in {"list_venue_ops", "describe_venue_op"} ->
                  \A w \in ans : \E d \in venue.ops : d.name = w.name /\ d.mutating = w.mutating
             [] r.rpc \in {"fetch_funding_rate", "list_funding_rates"} ->
                  \A w \in ans : w.mark = venue.mark
             [] OTHER -> TRUE

\* A client told that a trigger order is cancelled may rely on it: the order is
\* cancelled on the venue, also when it fired while the cancel was under way
\* (trigger_order_to_port, "reporting a dead backstop as live" and its converse).
CancelledNeverFires ==
    \A c \in Calls : Answered(c) /\ call[c].req.rpc = "cancel_trigger_order" =>
       venue.triggers[call[c].req.id].status = call[c].told.ans.status

\* What a client is told is what the venue says: no conversion on the way changes
\* it (TriggerOrderToPort to OpDescriptorToWire), and a cancel that lost its race
\* is not reported as one that won it (cancel_trigger_order).
AnswersAreTheVenues == ConversionsKeep /\ CancelledNeverFires


\* Every order still open when ReconcileState answers is in the snapshot, so is
\* every fill from before it began, and no order is in it twice, as open and
\* as a position, although sync_state reads the venue three times.
SnapshotCountsOnce ==
    \A c \in Calls : Answered(c) /\ call[c].req.rpc = "reconcile_state" =>
       LET snap == call[c].told.ans
       IN  /\ snap.positions \cap snap.open = {}
           /\ {o \in Orders : snap.start[o] = "Filled"} \subseteq snap.positions
           /\ OpenOrders(venue) \subseteq snap.open

\* An open trigger order leaves the venue's book by firing or by a cancel that
\* names it, never by cancel_all_orders or by the end of its session: the
\* backstop outlives the kill switch (proxy.rs, "Venue capabilities").
BackstopsSurvive ==
    [][\A i \in DOMAIN venue.triggers :
         venue.triggers[i].status = "Open" /\ venue'.triggers[i].status = "Canceled" =>
            \E c \in Calls : /\ call[c].req # None /\ call[c].req.rpc = "cancel_trigger_order"
                             /\ call[c].req.id = i /\ call'[c].ran]_vars

\* Every call ends for the worker, hence for its client, whatever the venue
\* does; the browser client has no deadline and relies on it (transport::unary).
CallsAnswered == \A c \in Calls : call[c].pc # "idle" ~> call[c].told # None
=============================================================================
