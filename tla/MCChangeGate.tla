---------------------------- MODULE MCChangeGate -----------------------------
(***************************************************************************)
(* ChangeGate on a baseline of one lane with one bundle, x, and one        *)
(* summary document, a; changes may bring another of each, y and b.        *)
(***************************************************************************)
EXTENDS ChangeGate

CONSTANT MaxMerges   \* bound on merges

a == <<"docs", "a.md">>
b == <<"docs", "b.md">>
x == evidenceRoot \o <<"x">>
y == evidenceRoot \o <<"y">>
sumsOf(bundle) == bundle \o <<"SHA256SUMS">>
logOf(bundle) == bundle \o <<"log">>

Row(lane, raw, summary) == [columns |-> 5, lane |-> lane, raw |-> raw, summary |-> summary]
Table(rows) == [header |-> TRUE, separator |-> TRUE, rows |-> rows]
Manifest(refs) == [canonical |-> TRUE, refs |-> refs]

MCFirstMain ==
  [p \in {baselineRef, summaryDocsManifestRef, a, b, sumsOf(x), logOf(x), <<"main.go">>} |->
     CASE p = baselineRef -> File(Table(<<Row("lane", {x, logOf(x)}, {a})>>))
       [] p = summaryDocsManifestRef -> File(Manifest({a}))
       [] OTHER -> File("v1")]

Tables ==
  {Table(<<Row("lane", {x}, {a, b})>>), Table(<<Row("lane", {x}, {b})>>), Table(<<Row("lane", {logOf(y)}, {a})>>),
   Table(<<Row("lane", {x}, {<<"docs", "..", "a.md">>})>>)}

Put(path, files) == {[path |-> path, file |-> file] : file \in files \cup {deleted}}

MCEdits ==
  Put(baselineRef, {File(table) : table \in Tables})
    \cup Put(summaryDocsManifestRef, {File(Manifest({a, b})), File(Manifest({b})), File([canonical |-> FALSE, refs |-> {a}]), Symlink})
    \cup Put(a, {File("v2"), Symlink}) \cup Put(b, {File("v2"), Symlink})
    \cup Put(logOf(x), {File("v2")}) \cup Put(sumsOf(x), {File("v2")})
    \cup {[path |-> sumsOf(y), file |-> File("v1")], [path |-> logOf(y), file |-> File("v1")],
          [path |-> y, file |-> Symlink], [path |-> <<"main.go">>, file |-> File("v2")]}

Bounded == merges <= MaxMerges
Symmetric == Permutations(PullRequests)
=============================================================================
