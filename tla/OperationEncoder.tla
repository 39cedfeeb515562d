-------------------------- MODULE OperationEncoder --------------------------
(***************************************************************************)
(* The request encoder of the spore-drive Python client:                   *)
(* BaseOperation in spore_drive/operations.py.  A wrapper's op_path and    *)
(* the action of a terminal method are folded into nested dicts            *)
(* (_build_op), bound onto the protobuf schema (_dict_to_protobuf) and     *)
(* wrapped in an Op envelope (_do_request).                                *)
(*                                                                         *)
(* A Python dict is a function from its keys to its values; a protobuf     *)
(* message is a function from its set fields to their values, a nested    *)
(* message being such a function again.  The binder resolves a field by    *)
(* name; all it asks of the schema is whether the field is a message,      *)
(* which is the case for every selector field and for the payload fields   *)
(* (set, add, delete) of a StringSlice leaf.                               *)
(***************************************************************************)
EXTENDS WrapperTree, TLC

\* The empty dict / the message with no field set.
EmptyDict == [k \in {} |-> k]

-----------------------------------------------------------------------------
(* Paths and their encoding.                                               *)

\* The qualifier keys a selector adds to its message value.
QualOf(item) ==
    IF item.qual.kind = "none" THEN EmptyDict ELSE item.qual.kind :> item.qual.val

\* Actions put directly beside the innermost selector's qualifier.
DirectKinds == {"delete", "generate", "list", "clear", "id"}

\* Mutant of BuildOp: a direct action replaces the innermost selector's
\* value instead of joining its name/shape qualifier.
BuildOpQualLost(path, action) ==
    LET RECURSIVE Fold(_, _)
        Fold(i, op) ==
            IF i = 0 THEN op
            ELSE LET item == path[i]
                     terminal == i = Len(path) /\ op.case \in DirectKinds
                 IN Fold(i - 1, [case |-> item.tag,
                                 value |-> IF terminal THEN op.case :> op.value
                                           ELSE ("op" :> op) @@ QualOf(item)])
    IN Fold(Len(path), action)

\* BaseOperation._build_op: fold the path, innermost selector first, around
\* the action dict {"case": kind, "value": payload}.
BuildOp(path, action) ==
    LET RECURSIVE Fold(_, _)
        Fold(i, op) ==
            IF i = 0 THEN op
            ELSE LET item == path[i]
                     terminal == i = Len(path) /\ op.case \in DirectKinds
                     body == IF terminal THEN op.case :> op.value ELSE "op" :> op
                 IN Fold(i - 1, [case |-> item.tag, value |-> body @@ QualOf(item)])
    IN Fold(Len(path), action)

\* Whether the schema declares field f a message: selector fields always,
\* payload fields on a StringSlice leaf.
IsMessageField(f, isSlice) ==
    f \in SelectorTags \/ (isSlice /\ f \in {"set", "add", "delete"})

\* field.default_value of a scalar field the binder may meet.
DefaultOf(f) == IF f \in DirectKinds \cup {"get"} THEN FALSE ELSE Zero

\* The "op" merge: message fields are copied when set, scalar fields only
\* when they differ from their default.
Inline(n, isSlice) ==
    [f \in {g \in DOMAIN n : IsMessageField(g, isSlice) \/ n[g] # DefaultOf(g)}
        |-> n[f]]

\* BaseOperation._dict_to_protobuf: a value that is no dict (the StringSlice
\* payload of a message field) is returned as it is; a dict
\* is bound key by key onto a fresh message.
RECURSIVE Bind(_, _)
Bind(d, isSlice) ==
    IF d \in Slices THEN d
    ELSE
    LET Sub(v) == Bind(v, isSlice)
        Part(k) ==
            CASE k = "case" ->
                   IF "value" \in DOMAIN d
                     THEN d.case :> (IF IsMessageField(d.case, isSlice)
                                       THEN Sub(d.value) ELSE d.value)
                     ELSE d.case :> TRUE
              [] k = "value" -> EmptyDict
              [] k = "op" -> Inline(Sub(d.op), isSlice)
              [] k \in {"name", "shape"} -> k :> d[k]
              [] OTHER -> k :> (IF IsMessageField(k, isSlice) THEN Sub(d[k]) ELSE d[k])
        fields == UNION {DOMAIN Part(k) : k \in DOMAIN d}
    IN [f \in fields |->
            LET k == CHOOSE k \in DOMAIN d : f \in DOMAIN Part(k) IN Part(k)[f]]

\* BaseOperation._do_request: the Op envelope carrying the config handle and
\* the bound section of a root case.
DoRequest(config, op, isSlice) ==
    IF op.case \in DOMAIN Roots
      THEN [config |-> config] @@ (op.case :> Bind(op.value, isSlice))
      ELSE [config |-> config]

\* The Op sent for the method `action` (the action dict and the class of
\* its wrapper) on the wrapper reached by `path`.
Encode(config, path, action) ==
    DoRequest(config, BuildOp(path, [case |-> action.case, value |-> action.value]),
              action.cls = "StringSlice")

-----------------------------------------------------------------------------
(* Reference: the message the schema expects (spec section 8, round-trip): *)
(* the selector chain of the path in order, each selector's message        *)
(* holding its qualifier and the next selector, the innermost one holding  *)
(* the action's field with its payload.                                    *)
Expected(config, path, action) ==
    LET RECURSIVE Want(_)
        Want(i) ==
            QualOf(path[i]) @@
                (IF i = Len(path) THEN action.case :> action.value
                                  ELSE path[i + 1].tag :> Want(i + 1))
    IN [config |-> config] @@ (path[1].tag :> Want(1))


=============================================================================
