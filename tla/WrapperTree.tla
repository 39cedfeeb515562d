----------------------------- MODULE WrapperTree -----------------------------
(***************************************************************************)
(* The section wrappers of the spore-drive Python client                   *)
(* (spore_drive/operations.py): the classes, the selector each property or *)
(* selection method appends to op_path, the action each terminal method    *)
(* sends, and the leaf set() calls each set() method makes from its config *)
(* dataclass.  BaseOperation's encoding of a path and an action into an Op *)
(* message is OperationEncoder.tla.                                        *)
(*                                                                         *)
(* Scalar payloads are drawn from Values; Zero stands for the falsy value   *)
(* of a field and the default of its type (None, "", 0, b"", [], {}); a    *)
(* StringSlice payload is a member of Slices (an already built             *)
(* config_pb2.StringSlice).  Flag actions carry TRUE.                      *)
(***************************************************************************)
EXTENDS Integers, Sequences, SequencesExt

CONSTANTS
    Names,   \* host, signer, shape and port names passed to selection methods
    Values,  \* scalar payloads passed to set()
    Zero,    \* the default (and falsy) value of a scalar field: "", 0, b""
    Slices,  \* StringSlice payloads of set/add/delete on a string list
    SSHPorts \* the port numbers an SSHConfig may carry

ASSUME EncoderAssumption ==
    /\ Slices \cap (Values \cup {Zero}) = {}
    /\ TRUE \notin Values \cup Slices \cup {Zero}
    /\ SSHPorts \subseteq Int

\* A wrapper step: `from` exposes a property or selection method that
\* appends the selector {"case": tag} (qual "none") or {"case": tag,
\* "name"/"shape": n} and returns a wrapper of class `to`.
Nav(from, tag, qual, to) == [from |-> from, tag |-> tag, qual |-> qual, to |-> to]

\* A terminal method of class `cls` sending {"case": case, "value": v},
\* v drawn from the payload kind: "value", "slice" or "flag" (True).
Act(cls, case, payload) == [cls |-> cls, case |-> case, payload |-> payload]

-----------------------------------------------------------------------------
(* The wrapper classes.                                                    *)

\* StringOperation, BytesOperation and StringSliceOperation.
LeafActs ==
    { Act("String", "set", "value"), Act("String", "get", "flag"),
      Act("Bytes", "set", "value"), Act("Bytes", "get", "flag"),
      Act("StringSlice", "set", "slice"), Act("StringSlice", "add", "slice"),
      Act("StringSlice", "delete", "slice"), Act("StringSlice", "clear", "flag"),
      Act("StringSlice", "list", "flag") }

\* Cloud, Domain, Validation and the validation keys.
CloudTree ==
    [nav |-> { Nav("Cloud", "domain", "none", "Domain"),
               Nav("Cloud", "p2p", "none", "P2P"),
               Nav("Domain", "root", "none", "String"),
               Nav("Domain", "generated", "none", "String"),
               Nav("Domain", "validation", "none", "Validation"),
               Nav("Validation", "keys", "none", "ValidationKeys"),
               Nav("ValidationKeys", "path", "none", "ValidationKeysPath"),
               Nav("ValidationKeys", "data", "none", "ValidationKeysData"),
               Nav("ValidationKeysPath", "private_key", "none", "String"),
               Nav("ValidationKeysPath", "public_key", "none", "String"),
               Nav("ValidationKeysData", "private_key", "none", "Bytes"),
               Nav("ValidationKeysData", "public_key", "none", "Bytes") },
     acts |-> { Act("Validation", "generate", "flag") }]

\* P2P, Bootstrap (selected by shape) and Swarm.
P2PTree ==
    [nav |-> { Nav("P2P", "bootstrap", "none", "Bootstrap"),
               Nav("P2P", "swarm", "none", "Swarm"),
               Nav("Bootstrap", "select", "shape", "BootstrapShape"),
               Nav("BootstrapShape", "nodes", "none", "StringSlice"),
               Nav("Swarm", "key", "none", "SwarmKey"),
               Nav("SwarmKey", "path", "none", "String"),
               Nav("SwarmKey", "data", "none", "Bytes") },
     acts |-> { Act("Bootstrap", "list", "flag"),
                Act("BootstrapShape", "delete", "flag"),
                Act("Swarm", "generate", "flag") }]

\* Hosts, Host, SSH, HostShapes; HostShape reaches its HostInstance through
\* _instance, a select without a name.
HostsTree ==
    [nav |-> { Nav("Hosts", "select", "name", "Host"),
               Nav("Host", "addresses", "none", "StringSlice"),
               Nav("Host", "ssh", "none", "SSH"),
               Nav("Host", "location", "none", "String"),
               Nav("Host", "shapes", "none", "HostShapes"),
               Nav("SSH", "address", "none", "String"),
               Nav("SSH", "auth", "none", "StringSlice"),
               Nav("HostShapes", "select", "name", "HostShape"),
               Nav("HostShape", "select", "none", "HostInstance"),
               Nav("HostInstance", "key", "none", "String") },
     acts |-> { Act("Hosts", "list", "flag"), Act("Host", "delete", "flag"),
                Act("HostShapes", "list", "flag"),
                Act("HostShape", "delete", "flag"),
                Act("HostInstance", "id", "flag"),
                Act("HostInstance", "generate", "flag") }]

\* Auth, Signer and its SSH key.
AuthTree ==
    [nav |-> { Nav("Auth", "select", "name", "Signer"),
               Nav("Signer", "username", "none", "String"),
               Nav("Signer", "password", "none", "String"),
               Nav("Signer", "key", "none", "SSHKey"),
               Nav("SSHKey", "path", "none", "String"),
               Nav("SSHKey", "data", "none", "Bytes") },
     acts |-> { Act("Auth", "list", "flag"), Act("Signer", "delete", "flag") }]

\* Shapes, Shape, Ports and Port.
ShapesTree ==
    [nav |-> { Nav("Shapes", "select", "name", "Shape"),
               Nav("Shape", "services", "none", "StringSlice"),
               Nav("Shape", "ports", "none", "Ports"),
               Nav("Shape", "plugins", "none", "StringSlice"),
               Nav("Ports", "select", "name", "Port") },
     acts |-> { Act("Shapes", "list", "flag"), Act("Shape", "delete", "flag"),
                Act("Ports", "list", "flag"), Act("Port", "set", "value"),
                Act("Port", "get", "flag"), Act("Port", "delete", "flag") }]

Trees == {CloudTree, P2PTree, HostsTree, AuthTree, ShapesTree}
NavSteps == UNION {t.nav : t \in Trees}
Acts == LeafActs \cup UNION {t.acts : t \in Trees}

\* The root wrappers and the selector each starts its path with.
Roots == [cloud |-> "Cloud", hosts |-> "Hosts", auth |-> "Auth", shapes |-> "Shapes"]

\* Every field name a selector can put in a message.
SelectorTags == DOMAIN Roots \cup {s.tag : s \in NavSteps}

\* The payloads an action of this kind may carry.
Payloads(kind) ==
    CASE kind = "value" -> Values
      [] kind = "slice" -> Slices
      [] kind = "flag"  -> {TRUE}

-----------------------------------------------------------------------------
(* Paths.                                                                  *)

\* A selector dict of the path: {"case": tag} or {"case": tag, kind: n}.
Selector(tag, qual, n) ==
    [tag |-> tag, qual |-> IF qual = "none" THEN [kind |-> "none"]
                                            ELSE [kind |-> qual, val |-> n]]

-----------------------------------------------------------------------------
(* The set() methods of the section wrappers.  A config dataclass is a     *)
(* record; Zero stands for every falsy field (None, "", 0, [], {}), which  *)
(* the methods skip; a dict of named entries is a sequence of              *)
(* <<name, value>> pairs in insertion order.  A plan is the sequence of    *)
(* leaf set() calls the method makes, each with the selectors it appends   *)
(* to the wrapper's op_path, or a raise that ends the method.              *)

\* A selector without qualifier.
Sel(tag) == Selector(tag, "none", tag)
Write(sel, cls, v) == [kind |-> "write", sel |-> sel, cls |-> cls, value |-> v]
RaiseStep == [kind |-> "raise", sel |-> <<>>, cls |-> "none", value |-> Zero]
\* The plan of a child wrapper, reached by the selector `item`.
Under(item, plan) ==
    [i \in DOMAIN plan |-> [plan[i] EXCEPT !.sel = <<item>> \o @]]
When(cond, plan) == IF cond THEN plan ELSE <<>>
\* The plans of a dict's entries, in order.
EachEntry(plans) == FlattenSeq(plans)

\* The dicts over entry values V, at most one entry per name.
DictsOf(V) ==
    {d \in SeqOf(Names \X V, Cardinality(Names)) :
        IsInjective([i \in DOMAIN d |-> d[i][1]])}

\* The configuration dataclasses (DomainConfig ... ShapesConfig).
Truthy(V) == V \cup {Zero}
Coordinates == {0}
DomainConfigs == [root : Truthy(Values), generated : Truthy(Values)]
BootstrapConfigs == [config : DictsOf(Truthy(Slices))]
P2PConfigs == [bootstrap : Truthy(BootstrapConfigs)]
CloudConfigs == [domain : Truthy(DomainConfigs), p2p : Truthy(P2PConfigs)]
SSHConfigs == [addr : Truthy(Values), port : Truthy(SSHPorts), auth : Truthy(Slices)]
LocationConfigs == [lat : Coordinates, long : Coordinates]
HostConfigs == [addr : Truthy(Slices), ssh : Truthy(SSHConfigs),
                location : Truthy(LocationConfigs)]
HostsConfigs == [hosts : DictsOf(HostConfigs)]
SignerConfigs == [username : Truthy(Values), password : Truthy(Values),
                  key : Truthy(Values)]
AuthConfigs == [signers : DictsOf(SignerConfigs)]
PortsConfigs == [ports : DictsOf(Values)]
ShapeConfigs == [services : Truthy(Slices), ports : Truthy(PortsConfigs),
                 plugins : Truthy(Slices)]
ShapesConfigs == [shapes : DictsOf(ShapeConfigs)]

\* Cloud.set, Domain.set, P2P.set and Bootstrap.set.
DomainPlan(c) ==
    When(c.root # Zero, <<Write(<<Sel("root")>>, "String", c.root)>>)
    \o When(c.generated # Zero, <<Write(<<Sel("generated")>>, "String", c.generated)>>)
BootstrapPlan(c) ==
    EachEntry([i \in DOMAIN c.config |->
        When(c.config[i][2] # Zero,
             <<Write(<<Selector("select", "shape", c.config[i][1]), Sel("nodes")>>,
                     "StringSlice", c.config[i][2])>>)])
P2PPlan(c) == When(c.bootstrap # Zero, Under(Sel("bootstrap"), BootstrapPlan(c.bootstrap)))
CloudPlan(c) ==
    When(c.domain # Zero, Under(Sel("domain"), DomainPlan(c.domain)))
    \o When(c.p2p # Zero, Under(Sel("p2p"), P2PPlan(c.p2p)))

\* SSH.set: the address, with ":port" appended for a positive port.
SSHAddress(c) ==
    IF c.port # Zero /\ c.port > 0 THEN [addr |-> c.addr, port |-> c.port] ELSE c.addr
SSHPlan(c) ==
    When(c.addr # Zero, <<Write(<<Sel("address")>>, "String", SSHAddress(c))>>)
    \o When(c.auth # Zero, <<Write(<<Sel("auth")>>, "StringSlice", c.auth)>>)
\* Host.set: the location formatted as "lat,long" (never empty).
HostPlan(c) ==
    When(c.addr # Zero, <<Write(<<Sel("addresses")>>, "StringSlice", c.addr)>>)
    \o When(c.ssh # Zero, Under(Sel("ssh"), SSHPlan(c.ssh)))
    \o When(c.location # Zero,
            <<Write(<<Sel("location")>>, "String",
                    [lat |-> c.location.lat, long |-> c.location.long])>>)
HostsPlan(c) ==
    EachEntry([i \in DOMAIN c.hosts |->
        Under(Selector("select", "name", c.hosts[i][1]), HostPlan(c.hosts[i][2]))])

\* Signer.set: username first, then the key-and-password check.
SignerPlan(c) ==
    When(c.username # Zero, <<Write(<<Sel("username")>>, "String", c.username)>>)
    \o IF c.key # Zero /\ c.password # Zero THEN <<RaiseStep>>
       ELSE When(c.password # Zero, <<Write(<<Sel("password")>>, "String", c.password)>>)
            \o When(c.key # Zero, <<Write(<<Sel("key"), Sel("path")>>, "String", c.key)>>)
AuthPlan(c) ==
    EachEntry([i \in DOMAIN c.signers |->
        Under(Selector("select", "name", c.signers[i][1]), SignerPlan(c.signers[i][2]))])

\* Shapes.set, Shape.set and Ports.set (every port is sent, 0 included).
PortsPlan(c) ==
    [i \in DOMAIN c.ports |->
        Write(<<Selector("select", "name", c.ports[i][1])>>, "Port", c.ports[i][2])]
ShapePlan(c) ==
    When(c.services # Zero, <<Write(<<Sel("services")>>, "StringSlice", c.services)>>)
    \o When(c.ports # Zero, Under(Sel("ports"), PortsPlan(c.ports)))
    \o When(c.plugins # Zero, <<Write(<<Sel("plugins")>>, "StringSlice", c.plugins)>>)
ShapesPlan(c) ==
    EachEntry([i \in DOMAIN c.shapes |->
        Under(Selector("select", "name", c.shapes[i][1]), ShapePlan(c.shapes[i][2]))])

\* The classes with a set() method, their config type and their plan.
SetConfigs(cls) ==
    CASE cls = "Cloud" -> CloudConfigs     [] cls = "Domain" -> DomainConfigs
      [] cls = "P2P" -> P2PConfigs         [] cls = "Bootstrap" -> BootstrapConfigs
      [] cls = "Hosts" -> HostsConfigs     [] cls = "Host" -> HostConfigs
      [] cls = "SSH" -> SSHConfigs         [] cls = "Auth" -> AuthConfigs
      [] cls = "Signer" -> SignerConfigs   [] cls = "Shapes" -> ShapesConfigs
      [] cls = "Shape" -> ShapeConfigs     [] cls = "Ports" -> PortsConfigs
      [] OTHER -> {}
SetPlan(cls, c) ==
    CASE cls = "Cloud" -> CloudPlan(c)     [] cls = "Domain" -> DomainPlan(c)
      [] cls = "P2P" -> P2PPlan(c)         [] cls = "Bootstrap" -> BootstrapPlan(c)
      [] cls = "Hosts" -> HostsPlan(c)     [] cls = "Host" -> HostPlan(c)
      [] cls = "SSH" -> SSHPlan(c)         [] cls = "Auth" -> AuthPlan(c)
      [] cls = "Signer" -> SignerPlan(c)   [] cls = "Shapes" -> ShapesPlan(c)
      [] cls = "Shape" -> ShapePlan(c)     [] cls = "Ports" -> PortsPlan(c)
SetClasses == {"Cloud", "Domain", "P2P", "Bootstrap", "Hosts", "Host", "SSH",
               "Auth", "Signer", "Shapes", "Shape", "Ports"}

=====================================================================================================================================================
