--------------------------- MODULE CompilePipeline ---------------------------
(***************************************************************************)
(* Incremental compilation (run_pipeline_inner of thinkingroot-serve): the *)
(* files of a workspace, the graph compiled from them, the byte store and  *)
(* the fingerprints, with files edited at any time and compiles that are   *)
(* cancelled, fail or die between any two phases.                          *)
(*                                                                         *)
(* A version is the content of a file and stands for its hash. Parsing     *)
(* gives every document a fresh source id, here the number of the compile  *)
(* and the file. A source has four layers of rows: its own row, structural *)
(* rows and claims, which are keyed by it, and witnesses, which are keyed  *)
(* by content and name the source that owns them. Relations, entities and  *)
(* events are taken with the claims.                                       *)
(***************************************************************************)
EXTENDS Integers, FiniteSets

CONSTANTS
  Files,        \* the files of the workspace
  Versions,     \* what a file may hold
  ContentOf,    \* file -> the versions it may come to hold
  Claimed,      \* the versions that structural extraction finds claims in
  Pipelines,    \* compiles that may run side by side
  Nil,          \* no content, no owner
  MaxCompiles,  \* bound on compiles
  MaxEdits,     \* bound on edits
  MaxMishaps    \* bound on interrupted compiles and on unreadable files

Sid == (1 .. MaxCompiles) \X Files

ASSUME PipelineAssumption ==
  /\ Nil \notin Versions /\ Nil \notin Sid
  /\ Claimed \subseteq Versions
  /\ ContentOf \in [Files -> SUBSET Versions]
  /\ MaxCompiles \in Nat /\ MaxEdits \in Nat /\ MaxMishaps \in Nat

VARIABLES
  disk,       \* file -> its content
  source,     \* sources: source id -> content_hash
  structural, \* the structural tables: source id -> the bytes its rows were made from
  claims,     \* the source ids that have claims
  witness,    \* witnesses: content -> the source id of its rows
  bytes,      \* the byte store: hash -> bytes
  saved,      \* fingerprints.json: file -> fingerprint
  comp,       \* the compiles
  compiles, edits, mishaps

graph == <<source, structural, claims, witness>>
vars  == <<disk, graph, bytes, saved, comp, compiles, edits, mishaps>>

Content == Versions \cup {Nil}

(* The fingerprint of an empty list of claims is always the same; claims carry fresh ids,
   so that of a list with claims never repeats. *)
Fingerprints == {"none", "empty", "unique"}
FingerprintOf(v) == IF v \in Claimed THEN "unique" ELSE "empty"

Phases  == {"idle", "diff", "fingerprint", "collect", "remove", "insert", "witness",
            "structural", "link", "audit", "save", "done"}
Compile == [at : Phases, num : 0 .. MaxCompiles, docs : [Files -> Content],
            gone : SUBSET Sid, changed : SUBSET Files, cut : SUBSET Files,
            doomed : SUBSET Sid, left : SUBSET Files, prints : [Files -> Fingerprints],
            full : BOOLEAN, exact : BOOLEAN]

TypeOK ==
  /\ disk \in [Files -> Content]
  /\ source \in [Sid -> Content] /\ structural \in [Sid -> Content] /\ claims \subseteq Sid
  /\ witness \in [Versions -> Sid \cup {Nil}]
  /\ bytes \in [Versions -> Content]
  /\ saved \in [Files -> Fingerprints]
  /\ comp \in [Pipelines -> Compile]
  /\ compiles \in 0 .. MaxCompiles /\ edits \in 0 .. MaxEdits /\ mishaps \in 0 .. MaxMishaps

NoCompile == [at |-> "idle", num |-> 0, docs |-> [f \in Files |-> Nil], gone |-> {},
              changed |-> {}, cut |-> {}, doomed |-> {}, left |-> {},
              prints |-> [f \in Files |-> "none"], full |-> FALSE, exact |-> FALSE]

Init ==
  /\ disk \in [Files -> Content] /\ \A f \in Files : disk[f] \in ContentOf[f] \cup {Nil}
  /\ source = [s \in Sid |-> Nil] /\ structural = [s \in Sid |-> Nil] /\ claims = {}
  /\ witness = [v \in Versions |-> Nil]
  /\ bytes = [v \in Versions |-> Nil]
  /\ saved = [f \in Files |-> "none"]
  /\ comp = [p \in Pipelines |-> NoCompile]
  /\ compiles = 0 /\ edits = 0 /\ mishaps = 0

-----------------------------------------------------------------------------
Live       == {s \in Sid : source[s] # Nil}
LiveOf(f)  == {s \in Live : s[2] = f}
Running(p) == comp[p].at \notin {"idle", "done"}
Mine(p, f) == <<comp[p].num, f>>

(* Every live source has all of its rows, made from the content its hash names. *)
Sound ==
  /\ \A v \in Versions : bytes[v] \in {Nil, v}
  /\ \A s \in Live : /\ structural[s] = source[s]
                     /\ s \in claims <=> source[s] \in Claimed
                     /\ witness[source[s]] = s

(* A user edits, creates or deletes a file. *)
Edit(f) ==
  /\ edits < MaxEdits /\ edits' = edits + 1
  /\ \E v \in (ContentOf[f] \cup {Nil}) \ {disk[f]} : disk' = [disk EXCEPT ![f] = v]
  /\ comp' = [p \in Pipelines |-> IF Running(p) THEN [comp[p] EXCEPT !.exact = FALSE] ELSE comp[p]]
  /\ UNCHANGED <<graph, bytes, saved, compiles, mishaps>>

Undisturbed(unread) == Sound /\ unread = {} /\ \A r \in Pipelines : ~Running(r)

(* parse_directory. A file that cannot be read or parsed is dropped from the documents. *)
Parse(p, full, unread) ==
  /\ ~Running(p) /\ compiles < MaxCompiles
  /\ compiles' = compiles + 1
  /\ mishaps' = mishaps + (IF unread = {} THEN 0 ELSE 1) /\ mishaps' <= MaxMishaps
  /\ comp' = [q \in Pipelines |->
       IF q = p
       THEN [NoCompile EXCEPT !.at = "diff", !.num = compiles', !.full = full,
               !.docs = [f \in Files |-> IF f \in unread THEN Nil ELSE disk[f]],
               !.exact = Undisturbed(unread)]
       ELSE [comp[q] EXCEPT !.exact = @ /\ ~Running(q)]]
  /\ UNCHANGED <<disk, graph, bytes, saved, edits>>

(* Phase 1: documents whose file and hash are not stored, sources whose file is gone.
   A compile with neither ends here. *)
Diff(p) ==
  LET docs    == comp[p].docs
      changed == {f \in Files : docs[f] # Nil /\ \A s \in LiveOf(f) : source[s] # docs[f]}
      gone    == {s \in Live : docs[s[2]] = Nil}
  IN /\ comp[p].at = "diff"
     /\ comp' = [comp EXCEPT ![p].changed = changed, ![p].gone = gone, ![p].prints = saved,
                             ![p].at = IF changed = {} /\ gone = {} THEN "done" ELSE "fingerprint"]
     /\ UNCHANGED <<disk, graph, bytes, saved, compiles, edits, mishaps>>

(* Phases 2 and 3: a document whose claims have the fingerprint of its last compile is
   skipped from here on. *)
CutOff(p) == {f \in comp[p].changed : /\ ~comp[p].full
                                      /\ FingerprintOf(comp[p].docs[f]) = "empty"
                                      /\ comp[p].prints[f] = "empty"}

Fingerprint(p) ==
  LET changed == comp[p].changed \ CutOff(p)
  IN /\ comp[p].at = "fingerprint"
     /\ comp' = [comp EXCEPT
          ![p].at = "collect", ![p].changed = changed, ![p].cut = CutOff(p),
          ![p].prints = [f \in Files |-> IF f \in changed THEN FingerprintOf(comp[p].docs[f])
                                                          ELSE @[f]]]
     /\ UNCHANGED <<disk, graph, bytes, saved, compiles, edits, mishaps>>

(* Phase 4: the sources to remove are read, then removed with their rows in one transaction. *)
DoomedChanged(p) == {s \in Live : s[2] \in comp[p].changed}  \* mutant: files that are gone stay
Doomed(p) == comp[p].gone \cup {s \in Live : s[2] \in comp[p].changed}

Collect(p) ==
  /\ comp[p].at = "collect"
  /\ comp' = [comp EXCEPT ![p].at = "remove", ![p].doomed = Doomed(p)]
  /\ UNCHANGED <<disk, graph, bytes, saved, compiles, edits, mishaps>>

WithoutRows(doomed) ==  \* mutant: the cascade forgets the claims
  /\ source' = [s \in Sid |-> IF s \in doomed THEN Nil ELSE source[s]]
  /\ structural' = [s \in Sid |-> IF s \in doomed THEN Nil ELSE structural[s]]
  /\ claims' = claims
  /\ witness' = [v \in Versions |-> IF witness[v] \in doomed THEN Nil ELSE witness[v]]
Without(doomed) ==
  /\ source' = [s \in Sid |-> IF s \in doomed THEN Nil ELSE source[s]]
  /\ structural' = [s \in Sid |-> IF s \in doomed THEN Nil ELSE structural[s]]
  /\ claims' = claims \ doomed
  /\ witness' = [v \in Versions |-> IF witness[v] \in doomed THEN Nil ELSE witness[v]]

Remove(p) ==
  /\ comp[p].at = "remove"
  /\ Without(comp[p].doomed)
  /\ comp' = [comp EXCEPT
       ![p].at = IF comp[p].changed = {} THEN "save" ELSE "insert",
       ![p].left = comp[p].changed,
       ![p].prints = [f \in Files |-> IF \E s \in comp[p].gone : s[2] = f THEN "none" ELSE @[f]]]
  /\ UNCHANGED <<disk, bytes, saved, compiles, edits, mishaps>>

(* Phase 6, for one document: its source, then the bytes the file holds now, unless bytes
   are stored under its hash. *)
PutBytes(f, v) ==
  bytes' = IF bytes[v] = Nil THEN [bytes EXCEPT ![v] = disk[f]] ELSE bytes

Insert(p, f) ==
  /\ comp[p].at = "insert" /\ f \in comp[p].left
  /\ source' = [source EXCEPT ![Mine(p, f)] = comp[p].docs[f]]
  /\ PutBytes(f, comp[p].docs[f])
  /\ comp' = [comp EXCEPT ![p].left = @ \ {f},
                          ![p].at = IF comp[p].left = {f} THEN "witness" ELSE "insert"]
  /\ UNCHANGED <<disk, structural, claims, witness, saved, compiles, edits, mishaps>>

(* The process dies or the byte store fails between the two. *)
InsertStops(p, f) ==
  /\ comp[p].at = "insert" /\ f \in comp[p].left
  /\ mishaps < MaxMishaps /\ mishaps' = mishaps + 1
  /\ source' = [source EXCEPT ![Mine(p, f)] = comp[p].docs[f]]
  /\ comp' = [comp EXCEPT ![p] = NoCompile]
  /\ UNCHANGED <<disk, structural, claims, witness, bytes, saved, compiles, edits>>

(* Phase 6.45: of documents with the same content one keeps its witnesses; rows that are
   there already change their source. *)
WitnessOwner(p, v) ==
  LET same == {f \in comp[p].changed : comp[p].docs[f] = v}
  IN IF same = {} THEN witness[v] ELSE Mine(p, CHOOSE f \in same : TRUE)

PersistWitnesses(p) ==
  /\ comp[p].at = "witness"
  /\ witness' = [v \in Versions |-> WitnessOwner(p, v)]
  /\ comp' = [comp EXCEPT ![p].at = "structural"]
  /\ UNCHANGED <<disk, source, structural, claims, bytes, saved, compiles, edits, mishaps>>

(* Phase 6.7: rows from the stored bytes; a document without bytes is skipped. *)
PersistStructural(p) ==
  /\ comp[p].at = "structural"
  /\ structural' = [s \in Sid |->
       IF /\ s[1] = comp[p].num /\ s[2] \in comp[p].changed
          /\ bytes[comp[p].docs[s[2]]] # Nil
       THEN bytes[comp[p].docs[s[2]]] ELSE structural[s]]
  /\ comp' = [comp EXCEPT ![p].at = "link"]
  /\ UNCHANGED <<disk, source, claims, witness, bytes, saved, compiles, edits, mishaps>>

(* Phases 7 and 8. *)
LinkNew(p) ==  \* mutant: only documents without an earlier source are linked
  /\ comp[p].at = "link"
  /\ claims' = claims \cup
       {s \in Sid : /\ s[1] = comp[p].num /\ s[2] \in comp[p].changed
                    /\ comp[p].docs[s[2]] \in Claimed
                    /\ \A d \in comp[p].doomed : d[2] # s[2]}
  /\ comp' = [comp EXCEPT ![p].at = "audit"]
  /\ UNCHANGED <<disk, source, structural, witness, bytes, saved, compiles, edits, mishaps>>
Link(p) ==
  /\ comp[p].at = "link"
  /\ claims' = claims \cup
       {s \in Sid : /\ s[1] = comp[p].num /\ s[2] \in comp[p].changed
                    /\ comp[p].docs[s[2]] \in Claimed}
  /\ comp' = [comp EXCEPT ![p].at = "audit"]
  /\ UNCHANGED <<disk, source, structural, witness, bytes, saved, compiles, edits, mishaps>>

(* Phase 9: a structural row without its source fails the compile. The bytes that no row
   covers are looked for up to the byte_size of each source, which Phase 6 leaves at 0, so
   that none are found. *)
Orphans == {s \in Sid \ Live : structural[s] # Nil}

Audit(p) ==
  /\ comp[p].at = "audit"
  /\ comp' = IF Orphans = {} THEN [comp EXCEPT ![p].at = "save"]
                             ELSE [comp EXCEPT ![p] = NoCompile]
  /\ UNCHANGED <<disk, graph, bytes, saved, compiles, edits, mishaps>>

Save(p) ==
  /\ comp[p].at = "save"
  /\ saved' = comp[p].prints
  /\ comp' = [comp EXCEPT ![p].at = "done"]
  /\ UNCHANGED <<disk, graph, bytes, compiles, edits, mishaps>>

(* bail_if_cancelled!, an error that ? returns, the death of the process. *)
Interrupt(p) ==
  /\ Running(p) /\ mishaps < MaxMishaps /\ mishaps' = mishaps + 1
  /\ comp' = [comp EXCEPT ![p] = NoCompile]
  /\ UNCHANGED <<disk, graph, bytes, saved, compiles, edits>>

Phase(p) ==
  \/ Diff(p) \/ Fingerprint(p) \/ Collect(p) \/ Remove(p)
  \/ \E f \in Files : Insert(p, f) \/ InsertStops(p, f)
  \/ PersistWitnesses(p) \/ PersistStructural(p) \/ Link(p) \/ Audit(p) \/ Save(p)

Next ==
  \/ \E f \in Files : Edit(f)
  \/ \E p \in Pipelines :
       \/ \E full \in BOOLEAN, unread \in SUBSET Files : Parse(p, full, unread)
       \/ Phase(p) \/ Interrupt(p)

Spec == Init /\ [][Next]_vars
-----------------------------------------------------------------------------
(* Whatever compiles were interrupted and wherever, no structural row, claim or witness
   outlives its source, a witness belongs to a source of its content, and a file has one
   source at most: the cascade of Phase 4 and the fresh ids of the parser. *)
GraphClosed ==
  /\ \A s \in Sid : structural[s] # Nil \/ s \in claims => s \in Live
  /\ \A v \in Versions : witness[v] # Nil => witness[v] \in Live /\ source[witness[v]] = v
  /\ \A s, t \in Live : s[2] = t[2] => s = t

(* When a compile is done, after any history of interrupted ones, the graph has exactly one
   source, with the hash that was parsed, for every document that the fingerprint did not
   cut off, and none for a file that is gone. *)
NothingForgotten ==
  \A p \in Pipelines : comp[p].at = "done" =>
    \A f \in Files \ comp[p].cut :
      {source[s] : s \in LiveOf(f)} = {comp[p].docs[f]} \ {Nil}

(* A compile that starts on a sound graph and that no edit, failure or other compile
   disturbs leaves a sound graph: every live source with all its rows. *)
CompileExact ==
  \A p \in Pipelines : comp[p].at = "done" /\ comp[p].exact => Sound

(* What Phase 9 says of itself, that it fails the compile when any source has uncovered
   bytes: past the audit every live source has structural rows. *)
CoverageAudited ==
  \A p \in Pipelines : comp[p].at = "save" /\ comp[p].changed # {} =>
    \A s \in Live : structural[s] # Nil

=============================================================================
