------------------------------ MODULE Surfaces ------------------------------
(***************************************************************************)
(* What reaches the program from outside, one at a time: the address of a  *)
(* page's route, a request to the dashboard's APIs, a message to the MCP   *)
(* endpoint.  The tables and handlers behind them are Routes, Requests and *)
(* ToolCalls.                                                              *)
(***************************************************************************)
EXTENDS Requests

MCP == INSTANCE ToolCalls

CONSTANTS AddressInputs, RequestInputs, CallInputs

\* The segments of a slug are never empty, and a version's id is a number:
\* never one of the words that follow a slug in a path.
SlugInputs == {slug \in Seq(STRING) : slug # <<>> /\ \A i \in DOMAIN slug : slug[i] # ""}
IdInputs == {id \in STRING : id \notin {"", "versions", "preflight"}}

\* A request, with what its body and its headers hold.
ApiRequests ==
  [path : Seq(STRING), method : STRING, cookie : {"none", "user", "admin"}, origin : BOOLEAN, csrf : BOOLEAN, large : BOOLEAN,
   parses : BOOLEAN, key : BOOLEAN, html : BOOLEAN, bearer : STRING, id : STRING, report : STRING]

\* A request to the endpoint, with what the tables answer to it.
CallRequests ==
  [host : BOOLEAN, origin : STRING, http : STRING, endpoint : BOOLEAN, limited : BOOLEAN, scope : STRING, media : BOOLEAN,
   body : STRING, id : STRING, method : STRING, wellformed : BOOLEAN, cursor : BOOLEAN, tool : STRING, args : SUBSET STRING,
   task : BOOLEAN, version : STRING, granted : BOOLEAN, works : Nat, fits : BOOLEAN]

SurfacesAssumption ==
  /\ AddressInputs \subseteq [slug : SlugInputs, id : IdInputs]
  /\ RequestInputs \subseteq ApiRequests
  /\ CallInputs \subseteq CallRequests

VARIABLE input

Quiet == input.kind = "none"
PickAddress == Quiet /\ \E a \in AddressInputs : input' = [kind |-> "address", address |-> a]
PickRequest == Quiet /\ \E q \in RequestInputs : input' = [kind |-> "request", request |-> q]
PickCall == Quiet /\ \E q \in CallInputs : input' = [kind |-> "call", call |-> q]

SurfacesInit == input = [kind |-> "none"]
SurfacesNext == PickAddress \/ PickRequest \/ PickCall

---------------------------------------------------------------------------
\* What the tables and the handlers make of it.
SurfacesHold ==
  /\ input.kind = "address" => Addressable(input.address.slug, input.address.id)
  /\ input.kind = "request" => RequestFaithful(input.request)
  /\ input.kind = "call" => MCP!CallFaithful(input.call)
=============================================================================
