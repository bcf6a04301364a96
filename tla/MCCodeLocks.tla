----------------------------- MODULE MCCodeLocks -----------------------------
(* Small lock requests for CodeLocks: what operators write, not what they mean *)
(* by it.                                                                      *)
EXTENDS CodeLocks, TLC

MCCleaned == ("./main.go" :> "main.go") @@ [p \in Path |-> p]
MCCut == [n \in {"Handle", "T.Handle"} |->
             [receiver |-> IF n = "T.Handle" THEN "T" ELSE "", name |-> "Handle"]]
MCLastElement ==
    "fmt" :> "fmt" @@ "net/http" :> "http" @@ "math/rand" :> "rand" @@ "crypto/rand" :> "rand"
    @@ "math/rand/v2" :> "v2"
MCPackageName == [MCLastElement EXCEPT !["math/rand/v2"] = "rand"]

\* The scopes of the requests below, in the order of the strings.
MCScopeOrder ==
    << <<"file", "./main.go">>, <<"file", "main.go">>, <<"file", "new.go">>,
       <<"file", "lock-conflicts.log">>, <<"file", "manifest.json">>, <<"file", "release-gate.json">>,
       <<"go_symbol", "main.go", "func", "helper">>, <<"go_symbol", "main.go", "func", "main">>,
       <<"go_symbol", "main.go", "type", "todo">>, <<"go_symbol", "main.go", "var", "limit">>,
       <<"go_symbol", "new.go", "func", "helper">>, <<"go_symbol", "new.go", "func", "main">>,
       <<"go_symbol", "new.go", "method", "Handle">>, <<"go_symbol", "new.go", "method", "T.Handle">> >>

--------------------------------------------------------------------------------
(* Contents. *)

Imp(paths) == {[path |-> p, alias |-> ""] : p \in paths}

\* A spec that refers to packages under their own names, and has other selectors.
Text(kind, name, paths, locals) ==
    [kind |-> kind, names |-> {name}, receiver |-> "",
     uses |-> {Binding(i) : i \in Imp(paths)},
     selectors |-> {PackageName[p] : p \in paths} \cup locals]
Method(receiver, paths) == [Text("method", "Handle", paths, {}) EXCEPT !.receiver = receiver]

Decl(text) == [doc |-> FALSE, specs |-> <<text>>]
Group(s, t) == [doc |-> FALSE, specs |-> <<s, t>>]

Go(decls, paths, form) == [parses |-> TRUE, decls |-> decls, imports |-> Imp(paths), form |-> form]
One(text, paths) == Go(<<Decl(text)>>, paths, IF paths = {} THEN "none" ELSE "group")

\* What is no Go source.
Prose == [Go(<< >>, {}, "none") EXCEPT !.parses = FALSE]

\* What renderGeneratedSource writes: two declarations and an import group.
Todo == Text("type", "todo", {}, {})
MCGenerated == Go(<<Decl(Todo), Decl(Text("func", "main", {"fmt", "net/http"}, {"mux"}))>>,
                  {"fmt", "net/http"}, "group")

\* The same declarations, written by an operator.
Main == Text("func", "main", {"fmt"}, {})
Rewritten == Go(<<Decl(Todo), Decl(Main)>>, {"fmt"}, "group")

Limit == Text("var", "limit", {"math/rand"}, {})
Step == Text("var", "step", {}, {})
Helper(path) == Text("func", "helper", {path}, {})

--------------------------------------------------------------------------------
(* Requests. *)

Asked(mode, path, kind, name, content, task, ttl) ==
    [mode |-> mode, path |-> path, kind |-> kind, name |-> name,
     content |-> content, task |-> task, ttl |-> ttl]
File(path, content, ttl) == Asked("file", path, "", "", content, NoTask, ttl)
Symbol(path, kind, name, content) == Asked("go_symbol", path, kind, name, content, NoTask, 3)

\* Leases of different length on one file, and a lock for one task.
Leases == {File("main.go", Rewritten, 1), File("main.go", Rewritten, 3),
           [File("new.go", One(Helper("fmt"), {"fmt"}), 2) EXCEPT !.task = "t1"]}

\* Symbols of the generated file: replaced, with contents that declare more than
\* is locked; appended; in a file of their own; and one that the content lacks.
Replaced == {[Symbol("main.go", "func", "main", Go(<<Decl(Step), Decl(Main)>>, {"fmt"}, "group"))
                 EXCEPT !.task = "t1", !.ttl = 2],
             [Symbol("main.go", "type", "todo", One(Todo, {})) EXCEPT !.ttl = 1]}
Appended == {Symbol("main.go", "func", "helper", One(Helper("math/rand"), {"math/rand"})),
             Symbol("new.go", "func", "helper", One(Helper("fmt"), {"fmt"})),
             Symbol("new.go", "func", "helper", One(Main, {"fmt"}))}

\* A file and one of its symbols; a file that does not parse, or has no imports.
FileAndSymbol == {File("main.go", Rewritten, 3), Symbol("main.go", "func", "main", One(Main, {"fmt"}))}
BadTargets == {File("new.go", Prose, 3), File("new.go", One(Step, {}), 3),
               Symbol("new.go", "func", "helper", One(Helper("fmt"), {"fmt"}))}

\* Grouped specs, and specs that declare two names.
Grouped == {File("main.go", Go(<<Group(Limit, Step), Decl(Main)>>, {"fmt", "math/rand"}, "group"), 3),
            Symbol("main.go", "var", "limit", Go(<<Group(Step, Limit)>>, {"math/rand"}, "single")),
            Symbol("main.go", "var", "limit", One(Limit, {"math/rand"}))}
TwoNames == {File("main.go", Go(<<Decl([Limit EXCEPT !.names = {"limit", "step"}])>>, {"math/rand"}, "group"), 3),
             Symbol("main.go", "var", "limit", One(Limit, {"math/rand"}))}

\* Two scopes of one target: two spellings of a path, a method with and without
\* its receiver.
Spellings == {File("main.go", Rewritten, 3), File("./main.go", One(Main, {"fmt"}), 3)}
Receivers == {Symbol("new.go", "method", "Handle", One(Method("T", {}), {})),
              Symbol("new.go", "method", "T.Handle", One(Method("T", {"fmt"}), {"fmt"}))}

\* Packages of one name, a package not named like its path, a name given to an
\* import, and a local variable named like a package.
Rands == {Symbol("new.go", "func", "helper", One(Helper("math/rand"), {"math/rand"})),
          Symbol("new.go", "func", "main", One(Text("func", "main", {"crypto/rand"}, {}), {"crypto/rand"}))}
Renamed == {Symbol("main.go", "func", "helper", One(Helper("math/rand/v2"), {"math/rand/v2"})),
            Symbol("main.go", "func", "main",
                [One(Text("func", "main", {}, {"r"}), {}) EXCEPT
                    !.imports = {[path |-> "math/rand", alias |-> "r"]}, !.form = "group",
                    !.decls[1].specs[1].uses = {[name |-> "r", path |-> "math/rand"]}])}
Locals == {Symbol("main.go", "func", "main", One(Text("func", "main", {"fmt"}, {"http"}), {"fmt"})),
           Symbol("main.go", "var", "limit", One(Limit, {"math/rand"}))}

\* Files that are written after the locks.
Written == {File("release-gate.json", Prose, 3), File("manifest.json", Prose, 3),
            File("lock-conflicts.log", Prose, 3)}

\* What is asked for where time passes and faults happen, and where locks are merged.
TimeInputs == {Leases, Replaced, Appended, Written}
MergeInputs == {Replaced, Appended, FileAndSymbol, BadTargets, Grouped, TwoNames,
                Spellings, Receivers, Rands, Renamed, Locals, Written}
MCInputs == TimeInputs \cup MergeInputs

\* The regions that are explored: two locks under clock and faults, and three locks
\* at one moment without faults.
Regions ==
    \/ inputs \in TimeInputs /\ nextId <= 3 /\ (nextId = 3 => \A h \in Human : pending[h] = NoRequest)
    \/ inputs \in MergeInputs /\ clock = 0 /\ faults = 0

\* Nothing tells the operators apart.
Symmetry == Permutations(Human)
=============================================================================
