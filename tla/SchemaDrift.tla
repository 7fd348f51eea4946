----------------------------- MODULE SchemaDrift -----------------------------
(***************************************************************************)
(* flowmap schema-drift: the tables the code names in its SQL, read from   *)
(* the edges of its graph, against those its migrations define; and the    *)
(* database that the migrations make, release after release.               *)
(***************************************************************************)
EXTENDS Integers, Sequences, FiniteSets, SequencesExt

CONSTANT Repositories   \* histories: sequences of releases [files, edges, owned]

VARIABLES history, release, told, db, applied, inOrder, phase, served, failed

driftVars == <<history, release, told, db, applied, inOrder, phase, served, failed>>

-----------------------------------------------------------------------------
(* A file's SQL is a sequence of texts; only those outside comments,       *)
(* literals and the bodies of functions are statements.                    *)
StripSQL(s) == s.where = "statement"

(* The schema qualifier is dropped, as on the side of the code. *)
CleanName(t) == t.table
(* Temporary tables, renames and anything else leave what is defined.      *)
ScanStatement(D, s) ==
    CASE s.op = "create" -> D \cup {CleanName(s.tables[1])}
      [] s.op = "drop"   -> D \ {CleanName(t) : t \in ToSet(s.tables)}
      [] OTHER           -> D
(* What is defined before and after each statement of a file.              *)
ScanDDL(D, sql) ==
    LET Scan[i \in 0..Len(sql)] == IF i = 0 THEN D
                                   ELSE IF StripSQL(sql[i]) THEN ScanStatement(Scan[i - 1], sql[i]) ELSE Scan[i - 1]
    IN  Scan
RenameCaveat(f) == \E i \in DOMAIN f.sql : StripSQL(f.sql[i]) /\ f.sql[i].op = "rename"

(* Components by number; of two where one begins the other, the shorter.   *)
VersionLess(a, b) ==
    \/ Len(a) < Len(b) /\ \A j \in DOMAIN a : a[j] = b[j]
    \/ \E i \in DOMAIN a \cap DOMAIN b : a[i] < b[i] /\ \A j \in 1..i - 1 : a[j] = b[j]
Category(f) == CASE f.kind = "versioned" -> 0 [] f.kind = "repeatable" -> 1 [] OTHER -> 2
(* Mutant: the files in the order of their names. *)
ReplayedByName(f, g) ==
    \/ Category(f) < Category(g)
    \/ Category(f) = Category(g) /\ f.name < g.name
ReplayedBefore(f, g) ==
    \/ Category(f) < Category(g)
    \/ Category(f) = Category(g) /\ VersionLess(f.version, g.version)
    \/ Category(f) = Category(g) /\ f.version = g.version /\ f.name < g.name

(* The files that are left after each step of the replay, the first of     *)
(* which comes next.                                                       *)
Forward(files) == {f \in files : ~f.rollback}
Earliest(F) == CHOOSE f \in F : \A g \in F \ {f} : ReplayedBefore(f, g)
FilesLeft(F) ==
    LET Left[n \in 0..Cardinality(F)] == IF n = 0 THEN F ELSE Left[n - 1] \ {Earliest(Left[n - 1])} IN Left
ForwardOrdered(files) == [n \in 1..Cardinality(Forward(files)) |-> Earliest(FilesLeft(Forward(files))[n - 1])]

(* What is defined before and after each file. *)
Replay(ordered) ==
    LET Defined[n \in 0..Len(ordered)] == IF n = 0 THEN {}
                                          ELSE ScanDDL(Defined[n - 1], ordered[n].sql)[Len(ordered[n].sql)]
    IN  Defined
SchemaTables(files) ==
    LET ordered == ForwardOrdered(files)
    IN  [defined |-> Replay(ordered)[Len(ordered)], replayed |-> Len(ordered),
         caveats |-> {f.name : f \in {h \in ToSet(ordered) : RenameCaveat(h)}}]

(* An edge has a label: a verb and a table, or neither where the SQL is    *)
(* not constant.                                                           *)
TableNamingVerb == {"SELECT", "INSERT", "UPDATE", "DELETE", "MERGE", "REPLACE", "UPSERT"}
NamesTable(e) == e.verb \in TableNamingVerb /\ e.label # ""
CodeTables(edges) ==
    LET Of(t) == {e \in edges : NamesTable(e) /\ e.label = t}
    IN  [writes |-> {[table |-> t, ops |-> {e.verb : e \in Of(t)}, sites |-> {e.from : e \in Of(t)}] :
                         t \in {e.label : e \in {d \in edges : NamesTable(d)}}},
         opaque |-> Cardinality({e \in edges : ~NamesTable(e)})]

SchemaCheck(edges, files, owned) ==
    LET code    == CodeTables(edges)
        schema  == SchemaTables(files)
        lib     == {CleanName(t) : t \in owned}
        defined == schema.defined \cup lib
    IN  [drift    |-> {w \in code.writes : w.table \notin defined},
         advisory |-> defined \ ({w.table : w \in code.writes} \cup lib),
         opaque |-> code.opaque, migrations |-> schema.replayed, caveats |-> schema.caveats]

-----------------------------------------------------------------------------
(* Flyway and the database.                                                *)

(* What comes first in a new database: versions compare with zeros for     *)
(* components they lack, and the files that are not Flyway's come last.    *)
Numeral(v, i) == IF i \in DOMAIN v THEN v[i] ELSE 0
Older(a, b) ==
    \E i \in DOMAIN a \cup DOMAIN b :
        Numeral(a, i) < Numeral(b, i) /\ \A j \in 1..i - 1 : Numeral(a, j) = Numeral(b, j)
Sooner(f, g) ==
    \/ f.kind = "versioned" /\ (g.kind # "versioned" \/ Older(f.version, g.version))
    \/ f.kind = "repeatable" /\ g.kind = "script"
    \/ f.kind = g.kind /\ f.kind # "versioned" /\ f.name < g.name

(* A file has its kind and version by its name; a label names the table of *)
(* the query, without its schema.                                          *)
FileOK(f) ==
    /\ f.kind \in {"versioned", "repeatable", "script"} /\ f.name \in Nat
    /\ DOMAIN f.version = 1..Len(f.version) /\ Len(f.version) \in Nat /\ \A i \in DOMAIN f.version : f.version[i] \in Nat
    /\ f.kind # "versioned" => f.version = <<>>
    /\ DOMAIN f.sql = 1..Len(f.sql) /\ Len(f.sql) \in Nat
    /\ \A i \in DOMAIN f.sql : f.sql[i].op = "create" => 1 \in DOMAIN f.sql[i].tables
ReleaseOK(r) ==
    /\ IsFiniteSet(r.edges) /\ \A e \in r.edges : NamesTable(e) => e.label = CleanName(e.table)
    /\ \A f \in Forward(r.files) : FileOK(f)
(* No release takes back a migration, or a table of a library.             *)
ASSUME RepositoriesOK ==
    \A h \in Repositories :
        /\ DOMAIN h = 1..Len(h) /\ Len(h) \in Nat \ {0} /\ \A n \in DOMAIN h : ReleaseOK(h[n])
        /\ \A n \in 1..Len(h) - 1 : h[n].files \subseteq h[n + 1].files /\ h[n].owned \subseteq h[n + 1].owned

Current == history[release]
NoDriftReport == [drift |-> {}, advisory |-> {}, opaque |-> 0, migrations |-> 0, caveats |-> {}]
DriftInit ==
    /\ history \in Repositories /\ release = 1 /\ phase = "check" /\ told = NoDriftReport
    /\ db = {} /\ applied = {} /\ inOrder = TRUE /\ served = {} /\ failed = {}

CmdSchemaDrift(gate) ==
    /\ phase = "check"
    /\ told' = SchemaCheck(Current.edges, Current.files, Current.owned)
    /\ phase' = IF gate /\ told'.drift # {} THEN "refused" ELSE "migrate"
    /\ UNCHANGED <<history, release, db, applied, inOrder, served, failed>>

Execute(D, s) ==
    IF s.where # "statement" THEN D
    ELSE CASE s.op = "create" -> D \cup {s.tables[1]}
           [] s.op = "drop"   -> D \ ToSet(s.tables)
           [] s.op = "rename" -> IF s.tables[1] \in D THEN (D \ {s.tables[1]}) \cup {s.tables[2]} ELSE D
           [] OTHER           -> D
ExecuteAll(D, sql) ==
    LET After[i \in 0..Len(sql)] == IF i = 0 THEN D ELSE Execute(After[i - 1], sql[i]) IN After
Migrate ==
    /\ phase = "migrate"
    /\ \E f \in Current.files \ applied :
          /\ ~f.rollback /\ \A g \in Current.files \ applied : g = f \/ g.rollback \/ Sooner(f, g)
          /\ db' = ExecuteAll(db, f.sql)[Len(f.sql)] /\ applied' = applied \cup {f}
          /\ inOrder' = (inOrder /\ \A g \in applied : Sooner(g, f))
    /\ UNCHANGED <<history, release, told, phase, served, failed>>

(* The service starts: the libraries migrate the tables they own. *)
StartService ==
    /\ phase = "migrate" /\ {f \in Current.files : ~f.rollback} \subseteq applied
    /\ db' = db \cup Current.owned /\ phase' = "serving"
    /\ UNCHANGED <<history, release, told, applied, inOrder, served, failed>>
QueryTable(e) ==
    /\ phase = "serving" /\ e \in Current.edges
    /\ IF e.table \in db THEN served' = served \cup {e} /\ UNCHANGED failed
                         ELSE failed' = failed \cup {e} /\ UNCHANGED served
    /\ UNCHANGED <<history, release, told, db, applied, inOrder, phase>>
NextRelease ==
    /\ phase = "serving" /\ release < Len(history)
    /\ release' = release + 1 /\ phase' = "check" /\ served' = {} /\ failed' = {}
    /\ UNCHANGED <<history, told, db, applied, inOrder>>

DriftNext ==
    \/ \E gate \in BOOLEAN : CmdSchemaDrift(gate)
    \/ Migrate \/ StartService \/ NextRelease
    \/ \E e \in Current.edges : QueryTable(e)
DriftSpec == DriftInit /\ [][DriftNext]_driftVars

-----------------------------------------------------------------------------
(* Names are compared without their schema.                                *)
TablesOf(F) == UNION {ToSet(s.tables) : s \in UNION {ToSet(f.sql) : f \in F}}
OneNameEach(S) == \A t, u \in S : t.table = u.table => t = u
OneSchema == OneNameEach(TablesOf(Current.files) \cup Current.owned \cup {e.table : e \in Current.edges})

(* "no drift means no drift among resolved writes" and every flag is a     *)
(* real hazard (schemadrift.go): a query fails for want of its table only  *)
(* when the check told of the table, or of SQL it could not read or a      *)
(* rename it could not follow; and a table it told of fails its queries.   *)
(* Stated of databases that were migrated in the order of a new one.       *)
DriftIsReal ==
    phase = "serving" /\ inOrder /\ OneSchema =>
        /\ \A e \in failed : \/ \E w \in told.drift : w.table = e.label /\ e.from \in w.sites
                             \/ told.caveats # {}
                             \/ told.opaque > 0 /\ ~NamesTable(e)
        /\ told.caveats = {} =>
              \A e \in served : \A w \in told.drift : ~(NamesTable(e) /\ w.table = e.label)

=============================================================================
