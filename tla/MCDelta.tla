------------------------------ MODULE MCDelta ------------------------------
(***************************************************************************)
(* A repository with two directories a and b, and c inside a: a POM in     *)
(* each, configuration in some, an API interface in b, and a controller    *)
(* and a Feign client that may inherit its mappings.                       *)
(*                                                                         *)
(* Links are of one level: the interface maps methods and the others       *)
(* extend it, without redeclaring all of them.  Redeclared and PrefixOnly  *)
(* are contents with other links.                                          *)
(***************************************************************************)
EXTENDS Delta

CONSTANTS root, a, b, c, none

MCDirs == {root, a, b, c}
MCAbove == [d \in MCDirs |-> IF d = root THEN {} ELSE IF d = c THEN {root, a} ELSE {root}]
MCByDepth == <<root, a, b, c>>
MCNames == {"app", "lib", "mock"}
MCTestNames == {"mock"}

Path(kind, dir, name) == [kind |-> kind, dir |-> dir, name |-> name]
Config(dir) == Path("config", dir, "application.yml")
Central == Path("cloud", b, "app.yml")
Api == Path("java", b, "Api")
Base == Path("java", a, "Base")
Controller == Path("java", c, "Controller")
Client == Path("java", a, "Client")

Named(name, modules) == [name |-> name, modules |-> modules]
Type(role, methods, super, prefixed, version) ==
    [role |-> role, methods |-> methods, super |-> super,
     prefixed |-> prefixed, version |-> version]

\* Builds: declared or not, complete or not, one declared by a deeper one,
\* test modules, equal names.
MCContents ==
    [p \in {Pom(d) : d \in MCDirs} |->
        CASE p.dir = root -> {Named("app", {}), Named("app", {a}), Named("app", {a, b})}
          [] p.dir = a -> {Named("lib", {}), Named("lib", {c}), Named("mock", {})}
          [] p.dir = b -> {Named("app", {}), Named("lib", {})}
          [] p.dir = c -> {Named("app", {}), Named("lib", {}), Named("lib", {b})}]
    @@ [p \in {Config(a), Config(root), Central} |-> {1, 2}]
    @@ [p \in {Api} |->
          {Type("type", {"get"}, none, TRUE, 1), Type("type", {}, none, FALSE, 1),
           Type("type", {"get", "put"}, none, FALSE, 2)}]
    @@ [p \in {Controller} |->
          {Type("controller", {}, Api, FALSE, 1), Type("controller", {"put", "list"}, Api, TRUE, 2),
           Type("controller", {"list"}, none, FALSE, 1)}]
    @@ [p \in {Client} |-> {Type("client", {}, Api, FALSE, 1)}]

MCPaths == DOMAIN MCContents

With(p, contents) == [MCContents EXCEPT ![p] = @ \cup contents]

\* A controller that redeclares all it inherits: no marker names the interface.
Redeclared == With(Controller, {Type("controller", {"get"}, Api, FALSE, 3)})

\* An interface that has a prefix and maps nothing: no link names it.
PrefixOnly ==
    [With(Controller, {Type("controller", {"list"}, Api, FALSE, 3)})
        EXCEPT ![Api] = @ \cup {Type("type", {}, none, TRUE, 3)}]

Plain ==
    [p \in MCPaths |->
        CASE p.kind \in {"config", "cloud"} -> 1
          [] p = Pom(root) -> Named("app", {a, b})
          [] p = Pom(a) -> Named("lib", {c})
          [] p = Pom(b) -> Named("app", {})
          [] p = Pom(c) -> Named("lib", {})
          [] p = Api -> Type("type", {"get"}, none, TRUE, 1)
          [] p = Controller -> Type("controller", {}, Api, FALSE, 1)
          [] p = Client -> Type("client", {}, Api, FALSE, 1)]

Override(t, changes) == [p \in MCPaths |-> IF p \in DOMAIN changes THEN changes[p] ELSE t[p]]

\* No inheritance: builds may leave the interface out.
Apart == (Controller :> Type("controller", {"list"}, none, FALSE, 1)) @@ (Client :> none)

\* The first index: of one declared build; of a directory with several; of
\* a build whose deepest module declares another.
MCTrees ==
    {Plain,
     Override(Plain, Pom(root) :> none @@ Config(root) :> none),
     Override(Plain, Apart),
     Override(Plain, Pom(root) :> none @@ Config(root) :> none @@ Central :> none @@ Apart),
     Override(Plain, Pom(root) :> Named("app", {a}) @@ Pom(c) :> Named("lib", {b})),
     Override(Plain, Client :> none
                     @@ Api :> Type("type", {"get", "put"}, none, FALSE, 2)
                     @@ Controller :> Type("controller", {"put", "list"}, Api, TRUE, 2))}
=============================================================================
