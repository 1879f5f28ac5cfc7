--------------------------- MODULE ArtifactInspector ---------------------------
(***************************************************************************)
(* inspect_artifacts of src/matchvet/artifacts.py: `matchvet doctor` reads  *)
(* the catalog without the writer lock, then looks at the files, beside a   *)
(* writer that is publishing.  No transaction spans its statements: each of *)
(* them sees the tables as they are at its own moment.                      *)
(***************************************************************************)
EXTENDS ArtifactStore

VARIABLE seen  \* the locals of inspect_artifacts and _inspect_catalog


NothingSeen == [at |-> "start", todo |-> {}, rows |-> {}, digests |-> {}, metadata |-> {},
                versions |-> {}, members |-> {},
                missing |-> {}, corrupt |-> {}, malformed |-> {}, orphans |-> {}]

InspectInit == Init /\ seen = NothingSeen

\* SELECT ... FROM artifacts.
ReadCatalog ==
  /\ seen.at = "start"
  /\ seen' = [seen EXCEPT !.at = "catalog", !.rows = catalog]

\* SELECT manifest_digest FROM snapshot_manifests; what is left to do is known.
ReadDigests ==
  LET digests == {row.object : row \in manifests} IN
  /\ seen.at = "catalog"
  /\ seen' = [seen EXCEPT !.at = "asking", !.digests = digests,
                          !.todo = ((1..3) \X digests) \cup ({4} \X seen.rows)]

\* First the metadata of every digest (1), then all versions (2), all members (3),
\* and in the end the object of every catalog row (4).
Turn(n, x) ==
  /\ seen.at = "asking"
  /\ <<n, x>> \in seen.todo
  /\ \A other \in seen.todo : n <= other[1]

Done(n, x) == seen.todo \ {<<n, x>>}

\* SELECT ... WHERE manifest_digest = ?; no row would raise a TypeError.
ReadMetadata(o) ==
  LET found == {row \in manifests : row.object = o} IN
  /\ Turn(1, o)
  /\ seen' = [seen EXCEPT !.todo = Done(1, o), !.metadata = @ \cup found,
                          !.at = IF found = {} THEN "raised" ELSE @]

ReadVersions(o) ==
  /\ Turn(2, o)
  /\ seen' = [seen EXCEPT !.todo = Done(2, o), !.versions = @ \cup ({o} \cap manifestVersions)]

ReadMembers(o) ==
  /\ Turn(3, o)
  /\ seen' = [seen EXCEPT !.todo = Done(3, o),
                          !.members = @ \cup {row \in manifestArtifacts : row.manifest = o}]

\* The bytes are the manifest of this digest, and what the statements returned is
\* what these bytes say.
AsPublished(row) ==
  LET o == row.digest IN
  /\ Intact(o)
  /\ row.media = "manifest"
  /\ \E m \in seen.metadata : m.object = o
  /\ o \in seen.versions
  /\ {m.member : m \in {r \in seen.members : r.manifest = o}} = o.members

\* One round of _inspect_catalog: presence and digest of the object, and for a
\* manifest its bytes against the rows that were read before.
CheckFile(row) ==
  LET o == row.digest IN
  /\ Turn(4, row)
  /\ seen' = [seen EXCEPT !.todo = Done(4, row),
                !.missing = @ \cup ({o} \ files),
                !.corrupt = @ \cup ({o} \cap bad),
                !.malformed = IF o \in seen.digests /\ ~AsPublished(row)
                              THEN @ \cup {o} ELSE @]

\* _scan_object_digests; the catalog that was read first decides what is an
\* orphan.
ScanObjects ==
  /\ seen.at = "asking"
  /\ seen.todo = {}
  /\ seen' = [seen EXCEPT !.at = "done", !.orphans = files \ {row.digest : row \in seen.rows}]

Return ==
  /\ seen.at = "done"
  /\ seen' = NothingSeen

Inspect ==
  /\ \/ ReadCatalog \/ ReadDigests
     \/ \E o \in ManifestObjects : ReadMetadata(o) \/ ReadVersions(o) \/ ReadMembers(o)
     \/ \E row \in seen.rows : CheckFile(row)
     \/ ScanObjects \/ Return
  /\ UNCHANGED vars

InspectNext == Inspect \/ (Next /\ UNCHANGED seen)

InspectSpec == InspectInit /\ [][InspectNext]_<<vars, seen>>

\* A race with a publication never makes a healthy store look unhealthy: no
\* manifest that is committed between two of the statements is compared with a
\* half of its rows or found to have none, and what is reported missing, corrupt
\* or malformed has really been damaged.
AlarmsAreReal ==
  /\ seen.at # "raised"
  /\ power = 0 => seen.missing \cup seen.corrupt \cup seen.malformed \subseteq struck
=============================================================================
