--------------------------- MODULE MCConfigSession ---------------------------
(***************************************************************************)
(* ConfigSession for TLC, with the requests it sends checked against the  *)
(* encoder of OperationEncoder.                                            *)
(***************************************************************************)
EXTENDS ConfigSession, OperationEncoder

\* Round-trip (spec section 8): every Op a wrapper method or a set() plan
\* sends binds (_build_op, _dict_to_protobuf, _do_request) to the selector
\* chain of the wrapper's op_path, each selector with its name or shape, and
\* the action's field with its payload at the innermost one.
RoundTrip ==
    \A r \in ops : Encode(r.handle, r.path, r.act) = Expected(r.handle, r.path, r.act)

=============================================================================
