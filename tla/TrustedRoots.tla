----------------------------- MODULE TrustedRoots -----------------------------
(***************************************************************************)
(* Artifacts that pin down a journal: anchors, segment and archive         *)
(* manifests, Git statements, attestations and exports of the verified     *)
(* prefix (journal/anchors.py, archive.py, git_anchor.py, attestation.py   *)
(* and their commands).  One user runs the commands; between any two of    *)
(* their reads and writes the journal, the files and the repository may    *)
(* change, and the process may die while it writes.                        *)
(*                                                                         *)
(* The hash of an event stands for the event and all before it, and is     *)
(* modelled by that sequence.  Other hashes and signatures stand for what  *)
(* they were computed from.                                                *)
(***************************************************************************)
EXTENDS Naturals, Sequences, SequencesExt, FiniteSets

CONSTANTS
  Missing,     \* a file that is not there, a field that is null
  Torn,        \* a file that a crash cut short
  EventIds,
  SigningKeys,
  Scopes,      \* sets of artifacts, one of which a behaviour is about
  MaxTrail,    \* events of the journal
  MaxChanges   \* changes that others make

VARIABLES
  source,   \* the journal: [present, trail, damaged, form]
  files,    \* what each artifact's file holds
  repo,     \* the Git repository: [head, objects], commits hold an anchor
  task,     \* the command under way and what it has read, or Missing
  verdict,  \* what the last verification answered, or Missing
  changes   \* changes made so far

rootVars == <<source, files, repo, task, verdict, changes>>

----------------------------------------------------------------------------
(***************************************************************************)
(* verify_journal: a damaged last event is not counted.                    *)
(***************************************************************************)
Reached(journal) ==
  IF journal.damaged THEN Front(journal.trail) ELSE journal.trail

\* Mutant: a journal that has grown beyond the root still matches it.
TailIssuesBehind(journal, count, last) ==
  {issue \in {"record", "count", "last"} :
     CASE issue = "record" -> journal.damaged
       [] issue = "count"  -> count > Len(Reached(journal))
       [] issue = "last"   -> ~IsPrefix(last, Reached(journal))}

\* The hash of the last event of an empty journal is null, and null is not checked.
TailIssues(journal, count, last) ==
  {issue \in {"record", "count", "last"} :
     CASE issue = "record" -> journal.damaged
       [] issue = "count"  -> count # Len(Reached(journal))
       [] issue = "last"   -> last # << >> /\ last # Reached(journal)}

Verifies(journal) == ~journal.damaged

JournalAnchor(journal, key) ==
  [count |-> Len(Reached(journal)), last |-> Reached(journal), key |-> key]

SignatureIssues(anchor, key) ==
  IF anchor.key # Missing /\ key # anchor.key THEN {"signature"} ELSE {}

\* The digest of the journal's file is modelled by the file.
ArchiveManifest(journal) ==
  [digest |-> journal, count |-> Len(journal.trail), last |-> journal.trail]

Attestation(anchor) == [anchor |-> anchor, statement |-> "statement"]

----------------------------------------------------------------------------
\* A command begins: what the last one answered was printed and is gone.
Start(command) == task = Missing /\ task' = command /\ verdict' = Missing

Write(file, content) ==
  /\ files' = [files EXCEPT ![file] = content]
  /\ task' = Missing
  /\ UNCHANGED <<source, repo, verdict, changes>>

Answer(about, root, seen, issues) ==
  /\ verdict' = [about |-> about, root |-> root, seen |-> seen, ok |-> issues = {}]
  /\ task' = Missing
  /\ UNCHANGED <<source, files, repo, changes>>

\* What a command loads: a missing or torn file raises, and nothing is answered.
Loaded(file) == file \in DOMAIN files /\ files[file] \notin {Missing, Torn}

----------------------------------------------------------------------------
(***************************************************************************)
(* Anchors and segment manifests                                           *)
(***************************************************************************)
\* create_journal_anchor, then write_journal_anchor or write_segment_manifest.
CreateAnchor ==
  /\ Verifies(source)
  /\ \E file \in DOMAIN files \cap {"anchor", "segment"}, key \in SigningKeys \cup {Missing} :
       Start([name |-> "write", file |-> file, content |-> JournalAnchor(source, key)])
  /\ UNCHANGED <<source, files, repo, changes>>

\* The new content replaces the old one, of which the crash leaves nothing.
WriteArtifact ==
  /\ task # Missing /\ task.name = "write"
  /\ \E content \in {task.content, Torn} : Write(task.file, content)

VerifyAnchor ==
  /\ \E file \in {"anchor", "segment"}, key \in SigningKeys \cup {Missing} :
       /\ Loaded(file)
       /\ Start([name |-> "verify_anchor", root |-> files[file],
                 issues |-> SignatureIssues(files[file], key)])
  /\ UNCHANGED <<source, files, repo, changes>>

AnswerAnchor ==
  /\ task # Missing /\ task.name = "verify_anchor"
  /\ Answer("anchor", task.root, [journals |-> <<source>>, signed |-> task.issues = {}],
            task.issues \cup TailIssues(source, task.root.count, task.root.last))

----------------------------------------------------------------------------
(***************************************************************************)
(* Archive manifests: the verification hashes the file and verifies the    *)
(* journal in two reads.                                                   *)
(***************************************************************************)
CreateArchiveManifest ==
  /\ "archive" \in DOMAIN files
  /\ Verifies(source) /\ source.present
  /\ Start([name |-> "write", file |-> "archive", content |-> ArchiveManifest(source)])
  /\ UNCHANGED <<source, files, repo, changes>>

HashArchivedJournal ==
  /\ Loaded("archive") /\ task = Missing
  /\ IF source.present
     THEN /\ Start([name |-> "verify_archive", root |-> files["archive"], hashed |-> source,
                      issues |-> IF source # files["archive"].digest THEN {"hash"} ELSE {}])
          /\ UNCHANGED <<source, files, repo, changes>>
     ELSE Answer("archive", files["archive"], [journals |-> <<source>>], {"missing"})

AnswerArchive ==
  /\ task # Missing /\ task.name = "verify_archive"
  /\ Answer("archive", task.root, [journals |-> <<task.hashed, source>>],
            task.issues \cup TailIssues(source, task.root.count, task.root.last))

----------------------------------------------------------------------------
(***************************************************************************)
(* Git statements                                                          *)
(***************************************************************************)
ResolveRef ==
  /\ "statement" \in DOMAIN files
  /\ files["anchor"] # Missing /\ repo.head # Missing
  /\ Start([name |-> "state", commit |-> repo.head])
  /\ UNCHANGED <<source, files, repo, changes>>

\* The anchor's file must be, byte by byte, the one of the commit resolved.
CreateStatement ==
  /\ task # Missing /\ task.name = "state"
  /\ IF files["anchor"] # Missing /\ task.commit.anchor = files["anchor"]
          /\ task.commit \in repo.objects
     THEN Write("statement", [commit |-> task.commit, anchor |-> files["anchor"]])
     ELSE task' = Missing /\ UNCHANGED <<source, files, repo, verdict, changes>>

ReadAnchorFile ==
  /\ Loaded("statement")
  /\ Start([name |-> "verify_statement", root |-> files["statement"], read |-> files["anchor"],
            repos |-> << >>,
            issues |-> IF files["anchor"] # files["statement"].anchor THEN {"anchor"} ELSE {}])
  /\ UNCHANGED <<source, files, repo, changes>>

\* The commit, its blob and the ref are read by three git processes, each of
\* which finds the repository as it is by then.
ReadRepository ==
  /\ task # Missing /\ task.name = "verify_statement" /\ Len(task.repos) < 2
  /\ task' = [task EXCEPT !.repos = Append(@, repo)]
  /\ UNCHANGED <<source, files, repo, verdict, changes>>

RepositoryIssues(statement, ref, repos) ==
  {issue \in {"commit", "blob", "ref"} :
     CASE issue = "commit" -> statement.commit \notin repos[1].objects
       [] issue = "blob"   -> /\ statement.commit \in repos[1].objects
                              /\ \/ statement.commit \notin repos[2].objects
                                 \/ statement.commit.anchor # statement.anchor
       [] issue = "ref"    -> ref /\ repos[3].head # statement.commit}

AnswerStatement ==
  /\ task # Missing /\ task.name = "verify_statement" /\ Len(task.repos) = 2
  /\ LET repos == Append(task.repos, repo)
     IN  \E ref \in BOOLEAN :
           Answer("statement", task.root, [anchor |-> task.read, ref |-> ref, repos |-> repos],
                  task.issues \cup RepositoryIssues(task.root, ref, repos))

----------------------------------------------------------------------------
(***************************************************************************)
(* External attestations                                                   *)
(***************************************************************************)
CreateAttestation ==
  /\ "attestation" \in DOMAIN files
  /\ Loaded("anchor")
  /\ Start([name |-> "write", file |-> "attestation", content |-> Attestation(files["anchor"])])
  /\ UNCHANGED <<source, files, repo, changes>>

VerifyAttestation ==
  /\ task = Missing /\ Loaded("anchor") /\ Loaded("attestation")
  /\ \E statement \in {Missing, "statement", "other"} :
       Answer("attestation", files["attestation"],
              [anchor |-> files["anchor"], statement |-> statement],
              {issue \in {"anchor", "statement"} :
                 \/ issue = "anchor" /\ files["attestation"].anchor # files["anchor"]
                 \/ issue = "statement" /\ statement = "other"})

----------------------------------------------------------------------------
(***************************************************************************)
(* export_verified_prefix: the output is truncated, and written and synced *)
(* event by event from one snapshot.                                       *)
(***************************************************************************)
StartExport ==
  /\ "export" \in DOMAIN files
  /\ Start([name |-> "export", prefix |-> Reached(source)])
  /\ files' = [files EXCEPT !["export"] = << >>]
  /\ UNCHANGED <<source, repo, changes>>

ExportEvent ==
  /\ task # Missing /\ task.name = "export" /\ files["export"] # task.prefix
  /\ files' = [files EXCEPT !["export"] = Append(@, task.prefix[Len(@) + 1])]
  /\ UNCHANGED <<source, repo, task, verdict, changes>>

AcknowledgeExport ==
  /\ task # Missing /\ task.name = "export" /\ files["export"] = task.prefix
  /\ Answer("export", task.prefix, [export |-> files["export"]], {})

\* The process dies: what it had read is forgotten, what it wrote stays.
ProcessDies ==
  /\ task # Missing /\ task' = Missing
  /\ UNCHANGED <<source, files, repo, verdict, changes>>

----------------------------------------------------------------------------
(***************************************************************************)
(* Everybody else                                                          *)
(***************************************************************************)
Changed(journal) ==
  /\ changes < MaxChanges /\ changes' = changes + 1
  /\ source' = journal
  /\ UNCHANGED <<files, repo, task, verdict>>

AppendEvent ==
  /\ ~source.damaged /\ Len(source.trail) < MaxTrail
  /\ \E id \in EventIds :
       Changed([source EXCEPT !.present = TRUE, !.trail = Append(@, id)])

\* The journal loses its tail, is damaged there, written in other bytes, or removed.
AlterJournal ==
  /\ source.present
  /\ \/ source.trail # << >> /\ Changed([source EXCEPT !.trail = Front(@), !.damaged = FALSE])
     \/ source.trail # << >> /\ ~source.damaged /\ Changed([source EXCEPT !.damaged = TRUE])
     \/ source.trail # << >> /\ Changed([source EXCEPT !.form = 1 - @])
     \/ Changed([present |-> FALSE, trail |-> << >>, damaged |-> FALSE, form |-> 0])

CommitAnchor ==
  /\ "statement" \in DOMAIN files
  /\ changes < MaxChanges /\ changes' = changes + 1
  /\ LET commit == [at |-> changes, anchor |-> files["anchor"]]
     IN  repo' = [head |-> commit, objects |-> repo.objects \cup {commit}]
  /\ UNCHANGED <<source, files, task, verdict>>

\* The ref is moved to another commit, or the commits it does not name are pruned.
MoveRef ==
  /\ changes < MaxChanges /\ changes' = changes + 1
  /\ \/ \E commit \in repo.objects \ {repo.head} : repo' = [repo EXCEPT !.head = commit]
     \/ /\ Cardinality(repo.objects) > 1
        /\ repo' = [repo EXCEPT !.objects = {repo.head}]
  /\ UNCHANGED <<source, files, task, verdict>>

\* An anchor that was committed is put back.
RestoreAnchor ==
  /\ changes < MaxChanges /\ changes' = changes + 1
  /\ \E commit \in repo.objects :
       /\ commit.anchor # files["anchor"]
       /\ files' = [files EXCEPT !["anchor"] = commit.anchor]
  /\ UNCHANGED <<source, repo, task, verdict>>

TrustedRootsInit ==
  /\ source = [present |-> FALSE, trail |-> << >>, damaged |-> FALSE, form |-> 0]
  /\ files \in {[file \in scope |-> Missing] : scope \in Scopes}
  /\ repo = [head |-> Missing, objects |-> {}]
  /\ task = Missing /\ verdict = Missing /\ changes = 0

TrustedRootsNext ==
  \/ CreateAnchor \/ WriteArtifact \/ VerifyAnchor \/ AnswerAnchor
  \/ CreateArchiveManifest \/ HashArchivedJournal \/ AnswerArchive
  \/ ResolveRef \/ CreateStatement \/ ReadAnchorFile \/ ReadRepository
  \/ AnswerStatement
  \/ CreateAttestation \/ VerifyAttestation
  \/ StartExport \/ ExportEvent \/ AcknowledgeExport \/ ProcessDies
  \/ AppendEvent \/ AlterJournal \/ CommitAnchor \/ MoveRef \/ RestoreAnchor

TrustedRootsSpec == TrustedRootsInit /\ [][TrustedRootsNext]_rootVars

----------------------------------------------------------------------------
\* A verification that succeeds says what its root says, whatever changed while
\* it ran: the journal read was the anchored one, with every event and no more;
\* both reads of an archived journal saw the archived bytes; the anchor's file
\* was the one committed under the statement's commit, which was there at both
\* reads of it, and where the ref pointed at the third; an exported prefix is
\* whole.  And a journal that did not change since is never refused.
TrustedRootsHold ==
  verdict # Missing =>
    LET root == verdict.root
        seen == verdict.seen
        Same(journal, trail) == ~journal.damaged /\ journal.trail = trail
    IN  CASE verdict.about = "anchor" ->
               verdict.ok <=> seen.signed /\ Same(seen.journals[1], root.last)
          [] verdict.about = "archive" ->
               verdict.ok <=> \A i \in 1 .. Len(seen.journals) :
                                /\ seen.journals[i].present \/ i = 2
                                /\ Same(seen.journals[i], root.digest.trail)
                                /\ i = 1 => seen.journals[i] = root.digest
          [] verdict.about = "statement" ->
               verdict.ok => /\ seen.anchor = root.commit.anchor
                             /\ \A i \in {1, 2} : root.commit \in seen.repos[i].objects
                             /\ seen.ref => seen.repos[3].head = root.commit
          [] verdict.about = "attestation" ->
               verdict.ok => root.anchor = seen.anchor
          [] verdict.about = "export" -> seen.export = root
===============================================================================
