------------------------------- MODULE Router -------------------------------
(***************************************************************************)
(* The router of the services on facil.io                                  *)
(* (libraries/c/facil-io-router/src/fio_router.c): a hash from the paths   *)
(* to places in a buffer of handlers, one callback for each method, and a  *)
(* middleware that may take a request away from its handler.               *)
(*                                                                         *)
(* A service registers its callbacks before it listens, on one thread; the *)
(* router is a value here, which the model of a service makes once.        *)
(***************************************************************************)
EXTENDS Naturals, Sequences

CONSTANTS
  Methods,      \* http_method_strings
  BufferSize,   \* HANDLERS_BUFFER_SIZE
  NoHandler     \* no callback

ASSUME RouterAssumption == BufferSize \in Nat

(* g_di.handlers, the part of g_handlers_buffer that is in use, and        *)
(* whether g_middleware is set.                                            *)
NoRoutes == [place |-> [p \in {} |-> 0], buffer |-> <<>>, middleware |-> FALSE]

Known(t) == DOMAIN t.place
Full(t) == Len(t.buffer) >= BufferSize

(* fio_router_new_or_existent_callback_index: a path that is new takes the *)
(* next place.                                                             *)
WithPath(t, path) ==
  IF path \in Known(t) THEN t
  ELSE [t EXCEPT !.place = [p \in Known(t) \union {path} |->
                              IF p = path THEN Len(t.buffer) + 1 ELSE t.place[p]],
                 !.buffer = Append(t.buffer, [m \in Methods |-> NoHandler])]

(* fio_router_register_callback, which aborts if it needs a new place and  *)
(* the buffer is full.                                                     *)
MayRegister(t, path) == path \in Known(t) \/ ~ Full(t)
Register(t, callback, path, method) ==
  LET u == WithPath(t, path) IN
    [u EXCEPT !.buffer[u.place[path]][method] = callback]

(* fio_router_register_midleware.                                          *)
RegisterMiddleware(t) == [t EXCEPT !.middleware = TRUE]

(* fio_router_on_request_route: the callback, or what the router does      *)
(* itself.  A method it has no name for runs through the loop: the router  *)
(* does not answer.  A middleware that aborts has answered.                *)
Route(t, path, method, aborts) ==
  LET callback == t.buffer[t.place[path]][method] IN
    CASE path \notin Known(t) -> "not found"
      [] path \in Known(t) /\ method \notin Methods -> "no answer"
      [] path \in Known(t) /\ method \in Methods /\ callback = NoHandler -> "not allowed"
      [] path \in Known(t) /\ method \in Methods /\ callback # NoHandler ->
           IF t.middleware /\ aborts THEN "aborted" ELSE callback

-----------------------------------------------------------------------------
(* The paths share no place, and none lies beyond the part of the buffer   *)
(* that is in use.                                                         *)
RoutesSound(t) ==
  /\ \A p \in Known(t) : t.place[p] \in 1..Len(t.buffer)
  /\ \A p, q \in Known(t) : t.place[p] = t.place[q] => p = q
  /\ \A k \in 1..Len(t.buffer) : DOMAIN t.buffer[k] = Methods
=============================================================================
