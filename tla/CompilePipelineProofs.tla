------------------------ MODULE CompilePipelineProofs ------------------------
(***************************************************************************)
(* Theorems about CompilePipeline: with one compile at a time, whatever is *)
(* interrupted and wherever, the graph stays closed and a compile that is  *)
(* done has forgotten nothing; and when no two files can hold the same     *)
(* content, an undisturbed compile leaves a sound graph.                   *)
(***************************************************************************)
EXTENDS CompilePipeline, TLAPS

(* One compile at a time: the registry of the compile routes, when nothing bypasses it. *)
Alone == \A p, q \in Pipelines : p = q

(* No two files can come to hold the same content. *)
OwnContent == \A f, g \in Files : f # g => ContentOf[f] \cap ContentOf[g] = {}

Planned == {"fingerprint", "collect", "remove"}
Written == {"witness", "structural", "link", "audit", "save", "done"}

(* The graph has the parsed content of every document that is neither changed nor cut off. *)
Kept(p) == \A f \in Files \ (comp[p].changed \cup comp[p].cut) :
             comp[p].docs[f] # Nil => \E s \in LiveOf(f) : source[s] = comp[p].docs[f]

Unborn(p)  == comp[p].at \in {"diff"} \cup Planned =>
                \A f \in Files : source[Mine(p, f)] = Nil
Plan(p)    == comp[p].at \in Planned =>
                /\ comp[p].gone = {s \in Live : comp[p].docs[s[2]] = Nil}
                /\ Kept(p)
Removal(p) == comp[p].at = "remove" => comp[p].doomed = Doomed(p)
Outcome(p) == comp[p].at \in {"insert"} \cup Written =>
                /\ \A s \in Live : comp[p].docs[s[2]] # Nil
                /\ Kept(p)
                /\ \A f \in comp[p].left : LiveOf(f) = {}
                /\ \A f \in comp[p].changed \ comp[p].left :
                     source[Mine(p, f)] = comp[p].docs[f]
Shape(p)   == /\ comp[p].at # "idle" => comp[p].num >= 1
              /\ \A f \in comp[p].changed : comp[p].docs[f] # Nil
              /\ comp[p].left \subseteq comp[p].changed
              /\ comp[p].at # "insert" => comp[p].left = {}
              /\ comp[p].at \in {"diff", "fingerprint"} => comp[p].cut = {}
              /\ comp[p].at = "diff" => comp[p].changed = {}

Numbered == /\ \A s \in Live : s[1] <= compiles
            /\ \A p \in Pipelines : comp[p].num <= compiles

IInv == /\ TypeOK /\ GraphClosed /\ Numbered
        /\ \A p \in Pipelines : Shape(p) /\ Unborn(p) /\ Plan(p) /\ Removal(p) /\ Outcome(p)

(* What an undisturbed compile keeps, on top of IInv. *)
Whole(s) == /\ structural[s] = source[s]
            /\ s \in claims <=> source[s] \in Claimed
            /\ witness[source[s]] = s
Untouched(p) == /\ \A v \in Versions : bytes[v] \in {Nil, v}
                /\ \A s \in Live : s[2] \notin comp[p].changed => Whole(s)
ExactStage(p) == comp[p].exact =>
  /\ comp[p].at \notin {"idle", "done"} => comp[p].docs = disk
  /\ comp[p].at \in {"diff"} \cup Planned => Sound
  /\ comp[p].at \in {"insert"} \cup Written =>
       /\ Untouched(p)
       /\ \A f \in comp[p].changed \ comp[p].left : bytes[comp[p].docs[f]] = comp[p].docs[f]
  /\ comp[p].at \in {"insert", "witness", "structural", "link"} =>
       \A f \in comp[p].changed : Mine(p, f) \notin claims
  /\ comp[p].at \in {"structural", "link", "audit", "save", "done"} =>
       \A f \in comp[p].changed : witness[comp[p].docs[f]] = Mine(p, f)
  /\ comp[p].at \in {"link", "audit", "save", "done"} =>
       \A f \in comp[p].changed : structural[Mine(p, f)] = comp[p].docs[f]
  /\ comp[p].at \in {"audit", "save", "done"} =>
       \A f \in comp[p].changed : Mine(p, f) \in claims <=> comp[p].docs[f] \in Claimed

Within == /\ \A f \in Files : disk[f] \in ContentOf[f] \cup {Nil}
          /\ \A p \in Pipelines, f \in Files : comp[p].docs[f] \in ContentOf[f] \cup {Nil}
          /\ \A s \in Live : source[s] \in ContentOf[s[2]]

EInv == IInv /\ Within /\ \A p \in Pipelines : ExactStage(p)
-----------------------------------------------------------------------------
LEMMA InitIInv == Init => IInv
<1> SUFFICES ASSUME Init PROVE IInv
  OBVIOUS
<1> USE PipelineAssumption
<1>1. TypeOK
  BY DEF Init, TypeOK, Content, Compile, Phases, Fingerprints, NoCompile
<1>2. Live = {}
  BY DEF Init, Live
<1>3. GraphClosed /\ Numbered
  BY <1>1, <1>2 DEF Init, GraphClosed, Numbered, NoCompile, Live
<1>4. ASSUME NEW p \in Pipelines PROVE Shape(p) /\ Unborn(p) /\ Plan(p) /\ Removal(p) /\ Outcome(p)
  BY DEF Init, NoCompile, Shape, Unborn, Plan, Removal, Outcome, Planned, Written
<1> QED
  BY <1>1, <1>3, <1>4 DEF IInv

(* A step that leaves the graph and every compile's record, but for a mark that no part of
   the invariant reads, leaves the invariant. *)
LEMMA EditIInv == ASSUME IInv, NEW f \in Files, Edit(f) PROVE IInv'
<1> USE PipelineAssumption
<1>1. TypeOK'
  <2>1. disk' \in [Files -> Content]
    BY DEF IInv, TypeOK, Edit, Content
  <2>2. comp' \in [Pipelines -> Compile]
    <3>1. ASSUME NEW p \in Pipelines PROVE [comp[p] EXCEPT !.exact = FALSE] \in Compile
      BY DEF IInv, TypeOK, Compile
    <3> QED
      BY <3>1 DEF IInv, TypeOK, Edit
  <2> QED
    BY <2>1, <2>2 DEF IInv, TypeOK, Edit, graph
<1>2. \A p \in Pipelines : /\ comp'[p].at = comp[p].at /\ comp'[p].num = comp[p].num
                          /\ comp'[p].docs = comp[p].docs /\ comp'[p].gone = comp[p].gone
                          /\ comp'[p].changed = comp[p].changed /\ comp'[p].cut = comp[p].cut
                          /\ comp'[p].doomed = comp[p].doomed /\ comp'[p].left = comp[p].left
  BY DEF IInv, TypeOK, Edit, Compile
<1>3. UNCHANGED <<graph, bytes, saved, compiles>>
  BY DEF Edit
<1>4. GraphClosed' /\ Numbered'
  BY <1>2, <1>3 DEF IInv, GraphClosed, Numbered, Live, graph
<1>5. ASSUME NEW p \in Pipelines PROVE (Shape(p) /\ Unborn(p) /\ Plan(p) /\ Removal(p) /\ Outcome(p))'
  BY <1>2, <1>3 DEF IInv, Shape, Unborn, Plan, Removal, Outcome, Kept, Doomed, LiveOf, Live, Mine, graph
<1> QED
  BY <1>1, <1>4, <1>5 DEF IInv

LEMMA ParseIInv ==
  ASSUME IInv, Alone, NEW p \in Pipelines, NEW full \in BOOLEAN, NEW unread \in SUBSET Files,
         Parse(p, full, unread)
  PROVE  IInv'
<1> USE PipelineAssumption
<1> DEFINE d == comp'[p]
<1>0. /\ UNCHANGED <<disk, graph, bytes, saved, edits>>
      /\ compiles < MaxCompiles /\ compiles' = compiles + 1 /\ mishaps' <= MaxMishaps
      /\ mishaps' = mishaps + (IF unread = {} THEN 0 ELSE 1)
  BY Zenon DEF Parse
<1>1. /\ d.at = "diff" /\ d.num = compiles + 1 /\ d.gone = {} /\ d.changed = {} /\ d.cut = {}
      /\ d.doomed = {} /\ d.left = {} /\ d \in Compile
  <2>1. PICK docs \in [Files -> Content], exact \in BOOLEAN :
          d = [NoCompile EXCEPT !.at = "diff", !.num = compiles + 1, !.full = full,
                                !.docs = docs, !.exact = exact]
    <3>1. [f \in Files |-> IF f \in unread THEN Nil ELSE disk[f]] \in [Files -> Content]
      BY DEF IInv, TypeOK, Content
    <3>2. Undisturbed(unread) \in BOOLEAN
      BY Zenon DEF Undisturbed
    <3>3. d = [NoCompile EXCEPT !.at = "diff", !.num = compiles + 1, !.full = full,
                 !.docs = [f \in Files |-> IF f \in unread THEN Nil ELSE disk[f]],
                 !.exact = Undisturbed(unread)]
      BY Zenon DEF Parse
    <3> QED
      BY Zenon, <3>1, <3>2, <3>3
  <2>2. compiles + 1 \in 0 .. MaxCompiles
    BY <1>0 DEF IInv, TypeOK
  <2>3. NoCompile \in Compile
    BY DEF NoCompile, Compile, Phases, Content, Fingerprints
  <2>4. d \in Compile
    BY <2>1, <2>2, <2>3 DEF Compile, Phases
  <2>5. /\ d.at = "diff" /\ d.num = compiles + 1 /\ d.gone = {} /\ d.changed = {}
        /\ d.cut = {} /\ d.doomed = {} /\ d.left = {}
    BY <2>1 DEF NoCompile
  <2> QED
    BY <2>4, <2>5
<1>2. \A q \in Pipelines : q = p
  BY DEF Alone
<1>4. TypeOK'
  <2>1. comp' \in [Pipelines -> Compile]
    <3>1. comp' = [q \in Pipelines |-> comp'[q]]
      BY Zenon DEF Parse
    <3> QED
      BY <1>1, <1>2, <3>1
  <2> QED
    BY <1>0, <2>1 DEF IInv, TypeOK, graph
<1>5. GraphClosed' /\ Numbered'
  BY <1>1, <1>2, <1>0 DEF IInv, TypeOK, GraphClosed, Numbered, Live, graph, Sid
<1>6. \A f \in Files : source'[Mine(p, f)'] = Nil
  BY <1>1, <1>0 DEF IInv, TypeOK, Numbered, Live, Mine, graph, Sid, Compile
<1>7. (Shape(p) /\ Unborn(p) /\ Plan(p) /\ Removal(p) /\ Outcome(p))'
  BY <1>1, <1>6 DEF IInv, TypeOK, Shape, Unborn, Plan, Removal, Outcome, Planned, Written
<1> QED
  BY <1>2, <1>4, <1>5, <1>7 DEF IInv

LEMMA StopIInv ==  \* the compile ends and nothing else changes
  ASSUME IInv, Alone, NEW p \in Pipelines, comp' = [comp EXCEPT ![p] = NoCompile],
         UNCHANGED <<disk, graph, bytes, saved, compiles, edits>>, mishaps' \in 0 .. MaxMishaps
  PROVE  IInv'
<1> USE PipelineAssumption
<1>1. comp'[p] = NoCompile /\ NoCompile \in Compile
  BY DEF IInv, TypeOK, NoCompile, Compile, Phases, Content, Fingerprints
<1>2. \A q \in Pipelines : q = p
  BY DEF Alone
<1>3. TypeOK'
  BY <1>1 DEF IInv, TypeOK, graph
<1>4. GraphClosed' /\ Numbered'
  BY <1>1, <1>2 DEF IInv, TypeOK, GraphClosed, Numbered, Live, graph, NoCompile
<1>5. (Shape(p) /\ Unborn(p) /\ Plan(p) /\ Removal(p) /\ Outcome(p))'
  BY <1>1 DEF Shape, Unborn, Plan, Removal, Outcome, Planned, Written, NoCompile
<1> QED
  BY <1>2, <1>3, <1>4, <1>5 DEF IInv

(* Two facts every phase uses: the record of the compile before it, and that no other
   compile has one that matters. *)
LEMMA TheCompile ==
  ASSUME IInv, Alone, NEW p \in Pipelines
  PROVE  /\ comp[p] \in Compile /\ comp[p].num <= compiles
         /\ comp[p].at # "idle" => \A f \in Files : Mine(p, f) \in Sid
         /\ \A q \in Pipelines : q = p
         /\ Shape(p) /\ Unborn(p) /\ Plan(p) /\ Removal(p) /\ Outcome(p)
<1> USE PipelineAssumption
<1>1. comp[p] \in Compile /\ comp[p].num <= compiles /\ compiles \in 0 .. MaxCompiles
  BY DEF IInv, TypeOK, Numbered
<1>2. Shape(p) /\ Unborn(p) /\ Plan(p) /\ Removal(p) /\ Outcome(p)
  BY DEF IInv
<1>3. comp[p].at # "idle" => comp[p].num \in 1 .. MaxCompiles
  BY <1>1, <1>2 DEF Shape, Compile
<1> QED
  BY <1>1, <1>2, <1>3 DEF Mine, Sid, Alone

LEMMA DiffIInv == ASSUME IInv, Alone, NEW p \in Pipelines, Diff(p) PROVE IInv'
<1> USE PipelineAssumption
<1> DEFINE c == comp[p]
           d == comp'[p]
           changed == {f \in Files : c.docs[f] # Nil /\ \A s \in LiveOf(f) : source[s] # c.docs[f]}
           gone    == {s \in Live : c.docs[s[2]] = Nil}
<1>1. /\ c \in Compile /\ c.at = "diff" /\ c.num <= compiles
      /\ \A q \in Pipelines : q = p
      /\ Shape(p) /\ Unborn(p)
  BY TheCompile DEF Diff
<1>2. UNCHANGED <<disk, graph, bytes, saved, compiles, edits, mishaps>>
  BY DEF Diff
<1>3. gone \subseteq Sid /\ changed \subseteq Files /\ saved \in [Files -> Fingerprints]
  BY DEF Live, IInv, TypeOK
<1>4. /\ d = [c EXCEPT !.changed = changed, !.gone = gone, !.prints = saved,
                       !.at = IF changed = {} /\ gone = {} THEN "done" ELSE "fingerprint"]
      /\ comp' = [comp EXCEPT ![p] = d]
  BY DEF Diff, IInv, TypeOK
<1>5. d \in Compile
  BY <1>1, <1>3, <1>4 DEF Compile, Phases
<1>6. /\ d.at \in {"done", "fingerprint"} /\ (d.at = "done" => changed = {} /\ gone = {})
      /\ d.num = c.num /\ d.docs = c.docs /\ d.gone = gone /\ d.changed = changed
      /\ d.cut = c.cut /\ d.left = c.left
  BY <1>1, <1>4 DEF Compile
<1>7. TypeOK'
  BY <1>2, <1>4, <1>5 DEF IInv, TypeOK, graph
<1>8. GraphClosed' /\ Numbered'
  BY <1>1, <1>2, <1>6 DEF IInv, GraphClosed, Numbered, Live, graph
<1>9. c.cut = {} /\ c.left = {}
  BY <1>1 DEF Shape
<1>10. Live' = Live /\ \A f \in Files : LiveOf(f)' = LiveOf(f) /\ Mine(p, f)' = Mine(p, f)
  BY <1>2, <1>6 DEF Live, LiveOf, Mine, graph
<1>11. Shape(p)' /\ Unborn(p)'
  BY <1>1, <1>2, <1>6, <1>9, <1>10 DEF Shape, Unborn, Planned, graph
<1>12. Kept(p)'
  BY <1>2, <1>6, <1>10 DEF Kept, graph
<1>13. (Plan(p) /\ Removal(p))'
  BY <1>6, <1>10, <1>12 DEF Plan, Removal, Planned
<1>14. Outcome(p)'
  BY <1>6, <1>9, <1>10, <1>12 DEF Outcome, Written
<1> QED
  BY <1>1, <1>7, <1>8, <1>11, <1>13, <1>14 DEF IInv

LEMMA FingerprintIInv == ASSUME IInv, Alone, NEW p \in Pipelines, Fingerprint(p) PROVE IInv'
<1> USE PipelineAssumption
<1> DEFINE c == comp[p]
           d == comp'[p]
           changed == c.changed \ CutOff(p)
           prints  == [f \in Files |-> IF f \in changed THEN FingerprintOf(c.docs[f])
                                                        ELSE c.prints[f]]
<1>1. /\ c \in Compile /\ c.at = "fingerprint" /\ c.num <= compiles
      /\ \A q \in Pipelines : q = p
      /\ Shape(p) /\ Unborn(p) /\ Plan(p)
  BY TheCompile DEF Fingerprint
<1>2. UNCHANGED <<disk, graph, bytes, saved, compiles, edits, mishaps>>
  BY DEF Fingerprint
<1>3. CutOff(p) \subseteq c.changed
  BY DEF CutOff
<1>4. prints \in [Files -> Fingerprints]
  BY <1>1 DEF Compile, FingerprintOf, Fingerprints
<1>5. /\ d = [c EXCEPT !.at = "collect", !.changed = changed, !.cut = CutOff(p), !.prints = prints]
      /\ comp' = [comp EXCEPT ![p] = d]
  BY DEF Fingerprint, IInv, TypeOK
<1>6. d \in Compile
  BY <1>1, <1>3, <1>4, <1>5 DEF Compile, Phases
<1>7. /\ d.at = "collect" /\ d.num = c.num /\ d.docs = c.docs /\ d.gone = c.gone
      /\ d.changed = changed /\ d.cut = CutOff(p) /\ d.left = c.left
  BY <1>1, <1>5 DEF Compile
<1>8. TypeOK'
  BY <1>2, <1>5, <1>6 DEF IInv, TypeOK, graph
<1>9. GraphClosed' /\ Numbered'
  BY <1>1, <1>2, <1>7 DEF IInv, GraphClosed, Numbered, Live, graph
<1>10. Live' = Live /\ \A f \in Files : LiveOf(f)' = LiveOf(f) /\ Mine(p, f)' = Mine(p, f)
  BY <1>2, <1>7 DEF Live, LiveOf, Mine, graph
<1>11. Shape(p)' /\ Unborn(p)'
  BY <1>1, <1>2, <1>7, <1>10 DEF Shape, Unborn, Planned, graph
<1>12. Kept(p)'
  BY <1>1, <1>2, <1>3, <1>7, <1>10 DEF Kept, Plan, Planned, Shape, graph
<1>13. (Plan(p) /\ Removal(p) /\ Outcome(p))'
  BY <1>1, <1>7, <1>10, <1>12 DEF Plan, Removal, Outcome, Planned, Written
<1> QED
  BY <1>1, <1>8, <1>9, <1>11, <1>13 DEF IInv

LEMMA CollectIInv == ASSUME IInv, Alone, NEW p \in Pipelines, Collect(p) PROVE IInv'
<1> USE PipelineAssumption
<1> DEFINE c == comp[p]
           d == comp'[p]
<1>1. /\ c \in Compile /\ c.at = "collect" /\ c.num <= compiles
      /\ \A q \in Pipelines : q = p
      /\ Shape(p) /\ Unborn(p) /\ Plan(p)
  BY TheCompile DEF Collect
<1>2. UNCHANGED <<disk, graph, bytes, saved, compiles, edits, mishaps>>
  BY DEF Collect
<1>3. Doomed(p) \subseteq Sid
  BY <1>1 DEF Doomed, Live, Compile
<1>4. d = [c EXCEPT !.at = "remove", !.doomed = Doomed(p)] /\ comp' = [comp EXCEPT ![p] = d]
  BY DEF Collect, IInv, TypeOK
<1>5. d \in Compile
  BY <1>1, <1>3, <1>4 DEF Compile, Phases
<1>6. /\ d.at = "remove" /\ d.num = c.num /\ d.docs = c.docs /\ d.gone = c.gone
      /\ d.changed = c.changed /\ d.cut = c.cut /\ d.left = c.left /\ d.doomed = Doomed(p)
  BY <1>1, <1>4 DEF Compile
<1>7. TypeOK'
  BY <1>2, <1>4, <1>5 DEF IInv, TypeOK, graph
<1>8. GraphClosed' /\ Numbered'
  BY <1>1, <1>2, <1>6 DEF IInv, GraphClosed, Numbered, Live, graph
<1>9. Live' = Live /\ \A f \in Files : LiveOf(f)' = LiveOf(f) /\ Mine(p, f)' = Mine(p, f)
  BY <1>2, <1>6 DEF Live, LiveOf, Mine, graph
<1>10. Doomed(p)' = Doomed(p)
  BY <1>6, <1>9 DEF Doomed
<1>11. Shape(p)' /\ Unborn(p)'
  BY <1>1, <1>2, <1>6, <1>9 DEF Shape, Unborn, Planned, graph
<1>12. Kept(p)'
  BY <1>1, <1>2, <1>6, <1>9 DEF Kept, Plan, Planned, graph
<1>13. (Plan(p) /\ Removal(p) /\ Outcome(p))'
  BY <1>1, <1>6, <1>9, <1>10, <1>12 DEF Plan, Removal, Outcome, Planned, Written
<1> QED
  BY <1>1, <1>7, <1>8, <1>11, <1>13 DEF IInv

LEMMA RemoveIInv == ASSUME IInv, Alone, NEW p \in Pipelines, Remove(p) PROVE IInv'
<1> USE PipelineAssumption
<1> DEFINE c == comp[p]
           d == comp'[p]
           prints == [f \in Files |-> IF \E s \in c.gone : s[2] = f THEN "none" ELSE c.prints[f]]
<1>1. /\ c \in Compile /\ c.at = "remove" /\ c.num <= compiles
      /\ \A q \in Pipelines : q = p
      /\ Shape(p) /\ Unborn(p) /\ Plan(p) /\ Removal(p)
  BY TheCompile DEF Remove
<1>2. UNCHANGED <<disk, bytes, saved, compiles, edits, mishaps>> /\ Without(c.doomed)
  BY DEF Remove
<1>3. prints \in [Files -> Fingerprints]
  BY <1>1 DEF Compile, Fingerprints
<1>4. /\ d = [c EXCEPT !.at = IF c.changed = {} THEN "save" ELSE "insert",
                       !.left = c.changed, !.prints = prints]
      /\ comp' = [comp EXCEPT ![p] = d]
  BY DEF Remove, IInv, TypeOK
<1>5. d \in Compile
  BY <1>1, <1>3, <1>4 DEF Compile, Phases
<1>6. /\ d.at = (IF c.changed = {} THEN "save" ELSE "insert") /\ d.num = c.num /\ d.docs = c.docs
      /\ d.changed = c.changed /\ d.cut = c.cut /\ d.left = c.changed
  BY <1>1, <1>4 DEF Compile
<1>7. TypeOK'
  BY <1>2, <1>4, <1>5 DEF IInv, TypeOK, Without, Content
<1>8. Live' = Live \ c.doomed /\ \A s \in Live' : source'[s] = source[s]
  BY <1>2 DEF Without, Live, IInv, TypeOK
<1>9. c.doomed = {s \in Live : c.docs[s[2]] = Nil \/ s[2] \in c.changed}
  BY <1>1 DEF Removal, Plan, Planned, Doomed
<1>10. GraphClosed'
  BY <1>2, <1>8 DEF IInv, TypeOK, GraphClosed, Without
<1>11. Numbered'
  BY <1>1, <1>2, <1>6, <1>8 DEF IInv, Numbered
<1>12. Shape(p)'
  BY <1>1, <1>6 DEF Shape
<1>13. Kept(p)'
  <2> SUFFICES ASSUME NEW f \in Files, f \notin c.changed, f \notin c.cut, c.docs[f] # Nil
               PROVE  \E s \in LiveOf(f)' : source'[s] = c.docs[f]
    BY <1>6 DEF Kept
  <2>1. PICK s \in LiveOf(f) : source[s] = c.docs[f]
    BY <1>1 DEF Plan, Planned, Kept
  <2>2. s \in Live /\ s[2] = f /\ s \notin c.doomed
    BY <1>9, <2>1 DEF LiveOf
  <2> QED
    BY <1>8, <2>1, <2>2 DEF LiveOf
<1>14. (Unborn(p) /\ Plan(p) /\ Removal(p))'
  BY <1>6 DEF Unborn, Plan, Removal, Planned
<1>15. Outcome(p)'
  BY <1>6, <1>8, <1>9, <1>13 DEF Outcome, LiveOf, Written
<1> QED
  BY <1>1, <1>7, <1>10, <1>11, <1>12, <1>14, <1>15 DEF IInv

(* What inserting the source of one document does to the graph. *)
LEMMA InsertSource ==
  ASSUME IInv, Alone, NEW p \in Pipelines, NEW f \in Files,
         comp[p].at = "insert", f \in comp[p].left,
         source' = [source EXCEPT ![Mine(p, f)] = comp[p].docs[f]],
         UNCHANGED <<structural, claims, witness, compiles>>
  PROVE  /\ Live' = Live \cup {Mine(p, f)} /\ Mine(p, f) \notin Live /\ Mine(p, f) \in Sid
         /\ source' \in [Sid -> Content]
         /\ source'[Mine(p, f)] = comp[p].docs[f] /\ comp[p].docs[f] # Nil
         /\ \A s \in Live : source'[s] = source[s]
         /\ GraphClosed' /\ \A s \in Live' : s[1] <= compiles'
<1> USE PipelineAssumption
<1> DEFINE c == comp[p]
           m == Mine(p, f)
<1>1. /\ c \in Compile /\ c.num <= compiles /\ m \in Sid /\ Shape(p) /\ Outcome(p)
  BY TheCompile
<1>2. c.docs[f] \in Versions
  BY <1>1 DEF Shape, Compile, Content
<1>3. m[1] = c.num /\ m[2] = f
  BY DEF Mine
<1>4. LiveOf(f) = {}
  BY <1>1 DEF Outcome
<1>5. m \notin Live
  BY <1>3, <1>4 DEF LiveOf
<1>6. source' \in [Sid -> Content] /\ source'[m] = c.docs[f] /\ \A s \in Sid \ {m} : source'[s] = source[s]
  BY <1>1, <1>2 DEF IInv, TypeOK, Content
<1>7. Live' = Live \cup {m}
  BY <1>1, <1>2, <1>6 DEF Live
<1>8. \A s \in Live : source'[s] = source[s]
  BY <1>5, <1>6 DEF Live
<1>9. GraphClosed'
  <2>1. \A s \in Sid : structural'[s] # Nil \/ s \in claims' => s \in Live'
    BY <1>7 DEF IInv, GraphClosed
  <2>2. \A v \in Versions : witness'[v] # Nil => witness'[v] \in Live' /\ source'[witness'[v]] = v
    BY <1>7, <1>8 DEF IInv, GraphClosed
  <2>3. \A s, t \in Live' : s[2] = t[2] => s = t
    BY <1>3, <1>4, <1>7 DEF IInv, GraphClosed, LiveOf
  <2> QED
    BY <2>1, <2>2, <2>3 DEF GraphClosed
<1>10. \A s \in Live' : s[1] <= compiles'
  BY <1>1, <1>3, <1>7 DEF IInv, Numbered
<1> QED
  BY <1>1, <1>2, <1>5, <1>6, <1>7, <1>8, <1>9, <1>10

LEMMA InsertIInv ==
  ASSUME IInv, Alone, NEW p \in Pipelines, NEW f \in Files, Insert(p, f) PROVE IInv'
<1> USE PipelineAssumption
<1> DEFINE c == comp[p]
           d == comp'[p]
           m == Mine(p, f)
<1>1. /\ c \in Compile /\ c.at = "insert" /\ f \in c.left /\ c.num <= compiles
      /\ \A q \in Pipelines : q = p
      /\ Shape(p) /\ Outcome(p) /\ m \in Sid /\ \A g \in Files : Mine(p, g) \in Sid
  BY TheCompile DEF Insert
<1>2. /\ UNCHANGED <<disk, structural, claims, witness, saved, compiles, edits, mishaps>>
      /\ source' = [source EXCEPT ![m] = c.docs[f]] /\ PutBytes(f, c.docs[f])
  BY DEF Insert
<1>3. /\ Live' = Live \cup {m} /\ m \notin Live
      /\ source' \in [Sid -> Content]
      /\ source'[m] = c.docs[f] /\ c.docs[f] # Nil
      /\ \A s \in Live : source'[s] = source[s]
      /\ GraphClosed' /\ \A s \in Live' : s[1] <= compiles'
  BY <1>1, <1>2, InsertSource
<1>4. bytes' \in [Versions -> Content]
  BY <1>1, <1>2, <1>3 DEF PutBytes, IInv, TypeOK, Compile, Content
<1>5. /\ d = [c EXCEPT !.left = c.left \ {f}, !.at = IF c.left = {f} THEN "witness" ELSE "insert"]
      /\ comp' = [comp EXCEPT ![p] = d]
  BY DEF Insert, IInv, TypeOK
<1>6. d \in Compile
  BY <1>1, <1>5 DEF Compile, Phases
<1>7. /\ d.at = (IF c.left = {f} THEN "witness" ELSE "insert") /\ d.num = c.num /\ d.docs = c.docs
      /\ d.changed = c.changed /\ d.cut = c.cut /\ d.left = c.left \ {f}
  BY <1>1, <1>5 DEF Compile
<1>8. TypeOK'
  BY <1>2, <1>3, <1>4, <1>5, <1>6 DEF IInv, TypeOK
<1>9. Numbered'
  BY <1>1, <1>2, <1>3, <1>7 DEF IInv, Numbered
<1>10. Shape(p)'
  BY <1>1, <1>7 DEF Shape
<1>11. m[2] = f /\ \A g \in Files : Mine(p, g)' = Mine(p, g) /\ Mine(p, g)[2] = g
  BY <1>7 DEF Mine
<1>12. Kept(p)'
  BY <1>1, <1>3, <1>7 DEF Outcome, Kept, LiveOf
<1>13. \A s \in Live' : d.docs[s[2]] # Nil
  BY <1>1, <1>3, <1>7, <1>11 DEF Outcome
<1>14. \A g \in d.left : LiveOf(g)' = {}
  BY <1>1, <1>3, <1>7, <1>11 DEF Outcome, LiveOf
<1>15. \A g \in d.changed \ d.left : source'[Mine(p, g)] = d.docs[g]
  <2> SUFFICES ASSUME NEW g \in c.changed \ c.left, g # f
               PROVE  source'[Mine(p, g)] = c.docs[g]
    BY <1>3, <1>7
  <2>1. source[Mine(p, g)] = c.docs[g] /\ c.docs[g] # Nil /\ g \in Files
    BY <1>1 DEF Outcome, Shape, Compile
  <2> QED
    BY <1>1, <1>3, <2>1 DEF Live
<1>16. Outcome(p)'
  BY <1>11, <1>12, <1>13, <1>14, <1>15, <1>6 DEF Outcome, Compile
<1>17. (Unborn(p) /\ Plan(p) /\ Removal(p))'
  BY <1>7 DEF Unborn, Plan, Removal, Planned
<1> QED
  BY <1>1, <1>3, <1>8, <1>9, <1>10, <1>16, <1>17 DEF IInv

LEMMA InsertStopsIInv ==
  ASSUME IInv, Alone, NEW p \in Pipelines, NEW f \in Files, InsertStops(p, f) PROVE IInv'
<1> USE PipelineAssumption
<1>1. /\ \A q \in Pipelines : q = p
      /\ UNCHANGED <<disk, structural, claims, witness, bytes, saved, compiles, edits>>
      /\ source' = [source EXCEPT ![Mine(p, f)] = comp[p].docs[f]]
      /\ comp[p].at = "insert" /\ f \in comp[p].left
      /\ mishaps < MaxMishaps /\ mishaps' = mishaps + 1
  BY TheCompile DEF InsertStops
<1>2. source' \in [Sid -> Content] /\ GraphClosed' /\ \A s \in Live' : s[1] <= compiles'
  BY <1>1, InsertSource
<1>3. comp'[p] = NoCompile /\ NoCompile \in Compile /\ comp' = [comp EXCEPT ![p] = NoCompile]
  BY DEF InsertStops, IInv, TypeOK, NoCompile, Compile, Phases, Content, Fingerprints
<1>4. TypeOK'
  BY <1>1, <1>2, <1>3 DEF IInv, TypeOK
<1>5. Numbered'
  BY <1>1, <1>2, <1>3 DEF IInv, TypeOK, Numbered, NoCompile
<1>6. (Shape(p) /\ Unborn(p) /\ Plan(p) /\ Removal(p) /\ Outcome(p))'
  BY <1>3 DEF Shape, Unborn, Plan, Removal, Outcome, Planned, Written, NoCompile
<1> QED
  BY <1>1, <1>2, <1>4, <1>5, <1>6 DEF IInv

(* The phases that add rows to the sources this compile inserted, and those that add none. *)
LEMMA LayerIInv ==
  ASSUME IInv, Alone, NEW p \in Pipelines, NEW at \in {"structural", "link", "audit", "save", "done"},
         comp[p].at \in {"witness", "structural", "link", "audit", "save"},
         comp' = [comp EXCEPT ![p].at = at],
         UNCHANGED <<disk, source, bytes, compiles, edits, mishaps>>,
         saved' \in [Files -> Fingerprints], structural' \in [Sid -> Content],
         claims' \subseteq Sid, witness' \in [Versions -> Sid \cup {Nil}],
         \A s \in Sid : (structural'[s] # Nil \/ s \in claims') =>
            structural[s] # Nil \/ s \in claims \/ \E f \in comp[p].changed : s = Mine(p, f),
         \A v \in Versions : witness'[v] = witness[v] \/
            \E f \in comp[p].changed : witness'[v] = Mine(p, f) /\ comp[p].docs[f] = v
  PROVE  IInv'
<1> USE PipelineAssumption
<1> DEFINE c == comp[p]
           d == comp'[p]
<1>1. /\ c \in Compile /\ c.num <= compiles
      /\ \A q \in Pipelines : q = p
      /\ Shape(p) /\ Outcome(p) /\ \A f \in Files : Mine(p, f) \in Sid
  BY TheCompile
<1>2. /\ d.at = at /\ d.num = c.num /\ d.docs = c.docs
      /\ d.changed = c.changed /\ d.cut = c.cut /\ d.left = c.left /\ d \in Compile
  BY <1>1 DEF IInv, TypeOK, Compile, Phases
<1>3. TypeOK'
  BY <1>2 DEF IInv, TypeOK
<1>4. Live' = Live /\ \A f \in Files : Mine(p, f)' = Mine(p, f) /\ LiveOf(f)' = LiveOf(f)
  BY <1>2 DEF Live, LiveOf, Mine
<1>5. \A f \in c.changed : Mine(p, f) \in Live /\ source[Mine(p, f)] = c.docs[f]
  BY <1>1 DEF Outcome, Written, Shape, Live, Compile
<1>6. GraphClosed'
  BY <1>4, <1>5 DEF IInv, GraphClosed
<1>7. Numbered'
  BY <1>1, <1>2, <1>4 DEF IInv, Numbered
<1>8. Shape(p)'
  BY <1>1, <1>2 DEF Shape
<1>9. Kept(p)'
  BY <1>1, <1>2, <1>4 DEF Outcome, Written, Kept
<1>10. Outcome(p)'
  BY <1>1, <1>2, <1>4, <1>9 DEF Outcome, Written, Compile
<1>11. (Unborn(p) /\ Plan(p) /\ Removal(p))'
  BY <1>2 DEF Unborn, Plan, Removal, Planned
<1> QED
  BY <1>1, <1>3, <1>6, <1>7, <1>8, <1>10, <1>11 DEF IInv

LEMMA PersistWitnessesIInv ==
  ASSUME IInv, Alone, NEW p \in Pipelines, PersistWitnesses(p) PROVE IInv'
<1>1. comp[p] \in Compile /\ \A f \in Files : Mine(p, f) \in Sid
  BY TheCompile DEF PersistWitnesses
<1>2. ASSUME NEW v \in Versions
      PROVE  WitnessOwner(p, v) = witness[v] \/
               \E f \in comp[p].changed : WitnessOwner(p, v) = Mine(p, f) /\ comp[p].docs[f] = v
  <2> DEFINE same == {f \in comp[p].changed : comp[p].docs[f] = v}
  <2>1. same # {} => (CHOOSE f \in same : TRUE) \in same
    OBVIOUS
  <2>2. WitnessOwner(p, v) = IF same = {} THEN witness[v] ELSE Mine(p, CHOOSE f \in same : TRUE)
    BY Zenon DEF WitnessOwner
  <2> QED
    BY <2>1, <2>2
<1>3. /\ comp[p].at = "witness" /\ comp' = [comp EXCEPT ![p].at = "structural"]
      /\ witness' = [v \in Versions |-> WitnessOwner(p, v)]
      /\ UNCHANGED <<disk, source, structural, claims, bytes, saved, compiles, edits, mishaps>>
  BY DEF PersistWitnesses
<1>4. witness' \in [Versions -> Sid \cup {Nil}]
  <2>1. \A v \in Versions : WitnessOwner(p, v) \in Sid \cup {Nil}
    BY <1>1, <1>2, <1>3 DEF IInv, TypeOK, Compile
  <2> QED
    BY <1>3, <2>1
<1>5. structural' \in [Sid -> Content] /\ claims' \subseteq Sid /\ saved' \in [Files -> Fingerprints]
  BY <1>3 DEF IInv, TypeOK
<1>6. \A v \in Versions : witness'[v] = witness[v] \/
        \E f \in comp[p].changed : witness'[v] = Mine(p, f) /\ comp[p].docs[f] = v
  <2> TAKE v \in Versions
  <2>1. witness'[v] = WitnessOwner(p, v)
    BY <1>3
  <2> QED
    BY <2>1, <1>2
<1>7. /\ \A s \in Sid : (structural'[s] # Nil \/ s \in claims') =>
           structural[s] # Nil \/ s \in claims \/ \E f \in comp[p].changed : s = Mine(p, f)
      /\ UNCHANGED <<disk, source, bytes, compiles, edits, mishaps>>
      /\ comp[p].at \in {"witness", "structural", "link", "audit", "save"}
      /\ comp' = [comp EXCEPT ![p].at = "structural"]
  BY <1>3
<1> HIDE DEF Mine, WitnessOwner
<1> QED
  BY <1>4, <1>5, <1>6, <1>7, LayerIInv

LEMMA PersistStructuralIInv ==
  ASSUME IInv, Alone, NEW p \in Pipelines, PersistStructural(p) PROVE IInv'
<1>1. comp[p] \in Compile
  BY TheCompile
<1>2. structural' \in [Sid -> Content]
  <2>1. \A s \in Sid : structural[s] \in Content
    BY DEF IInv, TypeOK
  <2>2. \A s \in Sid : structural'[s] \in {structural[s]} \cup Versions
    <3> TAKE s \in Sid
    <3>1. s[2] \in Files /\ comp[p].docs \in [Files -> Content]
      BY <1>1 DEF Sid, Compile
    <3>2. CASE s[1] = comp[p].num /\ s[2] \in comp[p].changed /\ bytes[comp[p].docs[s[2]]] # Nil
      <4>1. structural'[s] = bytes[comp[p].docs[s[2]]]
        BY <3>2 DEF PersistStructural
      <4>2. comp[p].docs[s[2]] \in Versions
        BY <3>1, <3>2, TheCompile DEF Shape, Content
      <4> QED
        BY <3>2, <4>1, <4>2 DEF IInv, TypeOK, Content
    <3>3. CASE ~(s[1] = comp[p].num /\ s[2] \in comp[p].changed /\ bytes[comp[p].docs[s[2]]] # Nil)
      BY <3>3 DEF PersistStructural
    <3> QED
      BY <3>2, <3>3
  <2>3. \A s \in Sid : structural'[s] \in Content
    BY <2>1, <2>2 DEF Content
  <2>4. structural' = [s \in Sid |-> structural'[s]]
    BY DEF PersistStructural
  <2> QED
    BY <2>3, <2>4
<1>3. ASSUME NEW s \in Sid, structural'[s] # Nil
      PROVE  structural[s] # Nil \/ \E f \in comp[p].changed : s = Mine(p, f)
  BY <1>3 DEF PersistStructural, Mine, Sid
<1> QED
  BY <1>2, <1>3, LayerIInv DEF PersistStructural, IInv, TypeOK

LEMMA LinkIInv == ASSUME IInv, Alone, NEW p \in Pipelines, Link(p) PROVE IInv'
<1>1. claims' \subseteq Sid
  BY DEF Link, IInv, TypeOK
<1>2. ASSUME NEW s \in Sid, s \in claims'
      PROVE  s \in claims \/ \E f \in comp[p].changed : s = Mine(p, f)
  BY <1>2 DEF Link, Mine, Sid
<1> QED
  BY <1>1, <1>2, LayerIInv DEF Link, IInv, TypeOK

LEMMA AuditIInv == ASSUME IInv, Alone, NEW p \in Pipelines, Audit(p) PROVE IInv'
<1>1. CASE Orphans = {}
  BY <1>1, LayerIInv DEF Audit, graph, IInv, TypeOK
<1>2. CASE Orphans # {}
  BY <1>2, StopIInv DEF Audit, IInv, TypeOK
<1> QED
  BY <1>1, <1>2

LEMMA SaveIInv == ASSUME IInv, Alone, NEW p \in Pipelines, Save(p) PROVE IInv'
<1>1. comp[p].prints \in [Files -> Fingerprints]
  BY TheCompile DEF Compile
<1> QED
  BY <1>1, LayerIInv DEF Save, graph, IInv, TypeOK

LEMMA InterruptIInv == ASSUME IInv, Alone, NEW p \in Pipelines, Interrupt(p) PROVE IInv'
<1>1. mishaps' \in 0 .. MaxMishaps
  BY PipelineAssumption DEF Interrupt, IInv, TypeOK
<1> QED
  BY <1>1, StopIInv DEF Interrupt

LEMMA StepIInv == ASSUME IInv, Alone, [Next]_vars PROVE IInv'
<1>1. CASE UNCHANGED vars
  BY <1>1 DEF vars, graph, IInv, TypeOK, GraphClosed, Numbered, Shape, Unborn, Plan, Removal,
       Outcome, Kept, Doomed, Live, LiveOf, Mine
<1>2. ASSUME NEW f \in Files, Edit(f) PROVE IInv'
  BY <1>2, EditIInv
<1>3. ASSUME NEW p \in Pipelines, NEW full \in BOOLEAN, NEW unread \in SUBSET Files,
             Parse(p, full, unread)
      PROVE  IInv'
  BY <1>3, ParseIInv
<1>4. ASSUME NEW p \in Pipelines, Phase(p) PROVE IInv'
  BY <1>4, DiffIInv, FingerprintIInv, CollectIInv, RemoveIInv, InsertIInv, InsertStopsIInv,
     PersistWitnessesIInv, PersistStructuralIInv, LinkIInv, AuditIInv, SaveIInv DEF Phase
<1>5. ASSUME NEW p \in Pipelines, Interrupt(p) PROVE IInv'
  BY <1>5, InterruptIInv
<1> QED
  BY <1>1, <1>2, <1>3, <1>4, <1>5 DEF Next

LEMMA DoneForgetsNothing == ASSUME IInv PROVE NothingForgotten
<1> SUFFICES ASSUME NEW p \in Pipelines, comp[p].at = "done",
                    NEW f \in Files, f \notin comp[p].cut
             PROVE  {source[s] : s \in LiveOf(f)} = {comp[p].docs[f]} \ {Nil}
  BY DEF NothingForgotten
<1> DEFINE c == comp[p]
<1>1. /\ c \in Compile /\ Shape(p) /\ Outcome(p) /\ GraphClosed
      /\ c.changed \subseteq Files /\ c.left = {}
  BY DEF IInv, TypeOK, Compile, Shape
<1>2. CASE c.docs[f] = Nil
  BY <1>1, <1>2 DEF Outcome, Written, LiveOf
<1>3. CASE c.docs[f] # Nil
  <2>1. \E s \in LiveOf(f) : source[s] = c.docs[f]
    <3>1. CASE f \in c.changed
      <4>1. source[Mine(p, f)] = c.docs[f] /\ c.num >= 1 /\ c.num \in 0 .. MaxCompiles
        BY <1>1, <3>1 DEF Outcome, Written, Shape, Compile
      <4>2. Mine(p, f) \in Sid /\ Mine(p, f)[2] = f
        BY <4>1, PipelineAssumption DEF Mine, Sid
      <4> QED
        BY <1>3, <4>1, <4>2 DEF LiveOf, Live
    <3>2. CASE f \notin c.changed
      BY <1>1, <1>3, <3>2 DEF Outcome, Written, Kept
    <3> QED
      BY <3>1, <3>2
  <2>2. \A s, t \in LiveOf(f) : s = t
    BY <1>1 DEF GraphClosed, LiveOf
  <2> QED
    BY <1>3, <2>1, <2>2
<1> QED
  BY <1>2, <1>3

(* Every variable has its type, and with one compile at a time the graph is closed whatever
   compiles were interrupted: the cascade in transactional_remove_sources misses no layer. *)
THEOREM Closed == ASSUME Alone PROVE Spec => [](TypeOK /\ GraphClosed)
<1>1. IInv => TypeOK /\ GraphClosed
  BY DEF IInv
<1>2. IInv /\ [Next]_vars => IInv'
  BY StepIInv
<1> QED
  BY InitIInv, <1>1, <1>2, PTL DEF Spec

(* With one compile at a time, a compile that is done has left nothing of what it parsed out
   but what the fingerprint cut off, and nothing of a file that is gone in. *)
THEOREM NothingIsForgotten == ASSUME Alone PROVE Spec => []NothingForgotten
<1>1. IInv /\ [Next]_vars => IInv'
  BY StepIInv
<1> QED
  BY InitIInv, DoneForgetsNothing, <1>1, PTL DEF Spec

-----------------------------------------------------------------------------
(* What files, documents and sources hold stays within what each file may hold. *)
LEMMA WithinStep == ASSUME IInv, Alone, Within, [Next]_vars PROVE Within'
<1> USE PipelineAssumption
<1>1. \A f \in Files : disk'[f] \in ContentOf[f] \cup {Nil}
  <2>1. CASE disk' = disk
    BY <2>1 DEF Within
  <2>2. ASSUME NEW f \in Files, Edit(f) PROVE \A g \in Files : disk'[g] \in ContentOf[g] \cup {Nil}
    BY <2>2 DEF Edit, Within, IInv, TypeOK
  <2>3. ASSUME NEW p \in Pipelines, Phase(p) PROVE disk' = disk
    <3>1. CASE Diff(p) \/ Fingerprint(p) \/ Collect(p) \/ Remove(p)
      BY Zenon, <3>1 DEF Diff, Fingerprint, Collect, Remove
    <3>2. CASE \E f \in Files : Insert(p, f) \/ InsertStops(p, f)
      BY Zenon, <3>2 DEF Insert, InsertStops
    <3>3. CASE PersistWitnesses(p) \/ PersistStructural(p) \/ Link(p) \/ Audit(p) \/ Save(p)
      BY Zenon, <3>3 DEF PersistWitnesses, PersistStructural, Link, Audit, Save
    <3> QED
      BY Zenon, <2>3, <3>1, <3>2, <3>3 DEF Phase
  <2>4. ASSUME NEW p \in Pipelines,
               Interrupt(p) \/ \E full \in BOOLEAN, unread \in SUBSET Files : Parse(p, full, unread)
        PROVE  disk' = disk
    BY Zenon, <2>4 DEF Interrupt, Parse
  <2>5. CASE UNCHANGED vars
    BY <2>1, <2>5 DEF vars
  <2> QED
    BY <2>1, <2>2, <2>3, <2>4, <2>5 DEF Next
<1>2. ASSUME NEW p \in Pipelines
      PROVE  \A f \in Files : comp'[p].docs[f] \in ContentOf[f] \cup {Nil}
  <2>1. comp[p] \in Compile /\ \A q \in Pipelines : q = p
    BY TheCompile
  <2>2. CASE comp'[p].docs = comp[p].docs
    BY <2>2 DEF Within
  <2>3. CASE comp'[p] = NoCompile
    BY <2>3 DEF NoCompile
  <2>4. ASSUME NEW full \in BOOLEAN, NEW unread \in SUBSET Files, Parse(p, full, unread)
        PROVE  \A f \in Files : comp'[p].docs[f] \in ContentOf[f] \cup {Nil}
    <3>1. comp'[p].docs = [f \in Files |-> IF f \in unread THEN Nil ELSE disk[f]]
      BY <2>4 DEF Parse, NoCompile
    <3> QED
      BY <3>1 DEF Within
  <2>5. ASSUME NEW f \in Files, Edit(f) PROVE comp'[p].docs = comp[p].docs
    BY <2>1, <2>5 DEF Edit, Compile
  <2>6. ASSUME Phase(p) PROVE comp'[p].docs = comp[p].docs \/ comp'[p] = NoCompile
    <3>1. CASE Diff(p)
      BY <2>1, <3>1 DEF Diff, Compile, IInv, TypeOK
    <3>6. CASE Collect(p)
      BY <2>1, <3>6 DEF Collect, Compile, IInv, TypeOK
    <3>4. CASE Fingerprint(p)
      BY <2>1, <3>4 DEF Fingerprint, Compile, IInv, TypeOK
    <3>5. CASE Remove(p)
      BY <2>1, <3>5 DEF Remove, Compile, IInv, TypeOK
    <3>2. CASE \E f \in Files : Insert(p, f) \/ InsertStops(p, f)
      BY <2>1, <3>2 DEF Insert, InsertStops, Compile, IInv, TypeOK
    <3>3. CASE PersistWitnesses(p) \/ PersistStructural(p) \/ Link(p) \/ Audit(p) \/ Save(p)
      BY <2>1, <3>3 DEF PersistWitnesses, PersistStructural, Link, Audit, Save, Compile, IInv, TypeOK
    <3> QED
      BY <2>6, <3>1, <3>2, <3>3, <3>4, <3>5, <3>6 DEF Phase
  <2>7. ASSUME Interrupt(p) PROVE comp'[p] = NoCompile
    BY <2>7 DEF Interrupt, IInv, TypeOK
  <2>8. CASE UNCHANGED vars
    BY <2>2, <2>8 DEF vars
  <2>9. \/ UNCHANGED vars \/ \E f \in Files : Edit(f)
        \/ \E full \in BOOLEAN, unread \in SUBSET Files : Parse(p, full, unread)
        \/ Phase(p) \/ Interrupt(p)
    BY Zenon, <2>1 DEF Next
  <2> QED
    BY <2>2, <2>3, <2>4, <2>5, <2>6, <2>7, <2>8, <2>9
<1>3. \A s \in Live' : source'[s] \in ContentOf[s[2]]
  <2>1. CASE source' = source
    BY <2>1 DEF Within, Live
  <2>2. ASSUME NEW p \in Pipelines, Remove(p) PROVE \A s \in Live' : source'[s] = source[s] /\ s \in Live
    BY <2>2 DEF Remove, Without, Live
  <2>3. ASSUME NEW p \in Pipelines, NEW f \in Files, Insert(p, f) \/ InsertStops(p, f)
        PROVE  \A s \in Live' : source'[s] \in ContentOf[s[2]]
    <3>1. /\ comp[p].at = "insert" /\ f \in comp[p].left
          /\ source' = [source EXCEPT ![Mine(p, f)] = comp[p].docs[f]]
          /\ UNCHANGED <<structural, claims, witness, compiles>>
      BY <2>3 DEF Insert, InsertStops
    <3>2. /\ Live' = Live \cup {Mine(p, f)} /\ source'[Mine(p, f)] = comp[p].docs[f]
          /\ comp[p].docs[f] # Nil /\ \A s \in Live : source'[s] = source[s]
      BY <3>1, InsertSource
    <3> QED
      BY <3>2 DEF Within, Mine
  <2>4. ASSUME NEW p \in Pipelines, Phase(p)
        PROVE  \/ source' = source \/ Remove(p)
               \/ \E f \in Files : Insert(p, f) \/ InsertStops(p, f)
    <3>1. CASE Diff(p) \/ Fingerprint(p) \/ Collect(p)
      BY Zenon, <3>1 DEF Diff, Fingerprint, Collect, graph
    <3>2. CASE PersistWitnesses(p) \/ PersistStructural(p) \/ Link(p) \/ Audit(p) \/ Save(p)
      BY Zenon, <3>2 DEF PersistWitnesses, PersistStructural, Link, Audit, Save, graph
    <3> QED
      BY Zenon, <2>4, <3>1, <3>2 DEF Phase
  <2>5. ASSUME NEW p \in Pipelines,
               Interrupt(p) \/ \E full \in BOOLEAN, unread \in SUBSET Files : Parse(p, full, unread)
        PROVE  source' = source
    BY Zenon, <2>5 DEF Interrupt, Parse, graph
  <2>6. ASSUME UNCHANGED vars \/ \E f \in Files : Edit(f) PROVE source' = source
    BY Zenon, <2>6 DEF vars, Edit, graph
  <2>7. \/ source' = source \/ \E p \in Pipelines : Remove(p)
        \/ \E p \in Pipelines, f \in Files : Insert(p, f) \/ InsertStops(p, f)
    BY <2>4, <2>5, <2>6 DEF Next
  <2> QED
    BY <2>1, <2>2, <2>3, <2>7 DEF Within
<1> QED
  BY <1>1, <1>2, <1>3 DEF Within

(* A compile that is over, or that something disturbed, has nothing to keep. *)
LEMMA InexactStage ==
  ASSUME NEW p \in Pipelines, comp'[p].exact = FALSE PROVE ExactStage(p)'
BY DEF ExactStage

LEMMA EditExact ==
  ASSUME IInv, NEW f \in Files, Edit(f), NEW p \in Pipelines, ExactStage(p) PROVE ExactStage(p)'
<1>1. comp[p] \in Compile /\ UNCHANGED <<graph, bytes>>
  BY DEF IInv, TypeOK, Edit
<1>2. comp'[p] = IF Running(p) THEN [comp[p] EXCEPT !.exact = FALSE] ELSE comp[p]
  BY DEF Edit
<1>3. CASE Running(p)
  BY <1>1, <1>2, <1>3, InexactStage DEF Compile
<1>4. CASE ~Running(p)
  BY <1>1, <1>2, <1>4
     DEF ExactStage, Running, Untouched, Whole, Live, Mine, graph, Planned, Written
<1> QED
  BY <1>3, <1>4

LEMMA ParseExact ==
  ASSUME IInv, Alone, NEW p \in Pipelines, NEW full \in BOOLEAN, NEW unread \in SUBSET Files,
         Parse(p, full, unread)
  PROVE  ExactStage(p)'
<1> SUFFICES ASSUME comp'[p].exact PROVE ExactStage(p)'
  BY DEF ExactStage
<1>1. /\ comp'[p].at = "diff" /\ comp'[p].exact = Undisturbed(unread)
      /\ comp'[p].docs = [f \in Files |-> IF f \in unread THEN Nil ELSE disk[f]]
      /\ UNCHANGED <<disk, graph, bytes>>
  BY DEF Parse, NoCompile
<1>2. Sound /\ unread = {}
  BY <1>1 DEF Undisturbed
<1>3. comp'[p].docs = disk'
  BY <1>1, <1>2 DEF IInv, TypeOK
<1>4. Sound'
  BY <1>1, <1>2 DEF Sound, Live, graph
<1> QED
  BY <1>1, <1>3, <1>4 DEF ExactStage, Planned, Written

(* The phases that only plan. *)
LEMMA DiffExact ==
  ASSUME IInv, Alone, NEW p \in Pipelines, Diff(p), ExactStage(p) PROVE ExactStage(p)'
<1> DEFINE c == comp[p]
           d == comp'[p]
<1>1. /\ c \in Compile /\ c.at = "diff" /\ UNCHANGED <<disk, graph, bytes>>
  BY TheCompile DEF Diff
<1>2. /\ d.at \in {"done", "fingerprint"} /\ (d.at = "done" => d.changed = {})
      /\ d.docs = c.docs /\ d.exact = c.exact
  BY <1>1 DEF Diff, IInv, TypeOK, Compile
<1> SUFFICES ASSUME d.exact PROVE ExactStage(p)'
  BY DEF ExactStage
<1>3. Sound /\ c.docs = disk
  BY <1>1, <1>2 DEF ExactStage
<1>4. Sound'
  BY <1>1, <1>3 DEF Sound, Live, graph
<1>5. Untouched(p)'
  BY <1>4 DEF Sound, Untouched, Whole
<1> QED
  BY <1>1, <1>2, <1>3, <1>4, <1>5 DEF ExactStage, Planned, Written

LEMMA PlanExact ==
  ASSUME IInv, Alone, NEW p \in Pipelines, Fingerprint(p) \/ Collect(p), ExactStage(p)
  PROVE  ExactStage(p)'
<1> DEFINE c == comp[p]
           d == comp'[p]
<1>1. /\ c \in Compile /\ c.at \in Planned /\ UNCHANGED <<disk, graph, bytes>>
  BY TheCompile DEF Fingerprint, Collect, Planned
<1>2. d.at \in Planned /\ d.docs = c.docs /\ d.exact = c.exact
  <2>1. CASE Fingerprint(p)
    BY <1>1, <2>1 DEF Fingerprint, IInv, TypeOK, Compile, Planned
  <2>2. CASE Collect(p)
    BY <1>1, <2>2 DEF Collect, IInv, TypeOK, Compile, Planned
  <2> QED
    BY <2>1, <2>2
<1> SUFFICES ASSUME d.exact PROVE ExactStage(p)'
  BY DEF ExactStage
<1>3. Sound /\ c.docs = disk
  BY <1>1, <1>2 DEF ExactStage, Planned
<1>4. Sound'
  BY <1>1, <1>3 DEF Sound, Live, graph
<1> QED
  BY <1>1, <1>2, <1>3, <1>4 DEF ExactStage, Planned, Written

LEMMA RemoveExact ==
  ASSUME IInv, Alone, NEW p \in Pipelines, Remove(p), ExactStage(p) PROVE ExactStage(p)'
<1> DEFINE c == comp[p]
           d == comp'[p]
<1>1. /\ c \in Compile /\ c.at = "remove" /\ Removal(p) /\ Unborn(p)
      /\ UNCHANGED <<disk, bytes>> /\ Without(c.doomed)
  BY TheCompile DEF Remove
<1>2. /\ d.at = (IF c.changed = {} THEN "save" ELSE "insert") /\ d.docs = c.docs
      /\ d.num = c.num /\ d.changed = c.changed /\ d.left = c.changed /\ d.exact = c.exact
  BY <1>1 DEF Remove, IInv, TypeOK, Compile
<1> SUFFICES ASSUME d.exact PROVE ExactStage(p)'
  BY DEF ExactStage
<1>3. Sound /\ c.docs = disk
  BY <1>1, <1>2 DEF ExactStage, Planned
<1>4. \A s \in Live' : s \in Live /\ s \notin c.doomed /\ source'[s] = source[s]
  BY <1>1 DEF Without, Live
<1>5. ASSUME NEW s \in Live' PROVE Whole(s)'
  <2>1. /\ s \in Sid /\ s \in Live /\ s \notin c.doomed /\ source'[s] = source[s]
        /\ source[s] \in Versions
    BY <1>4 DEF Live, IInv, TypeOK, Content
  <2>2. structural[s] = source[s] /\ (s \in claims <=> source[s] \in Claimed) /\ witness[source[s]] = s
    BY <1>3, <2>1 DEF Sound
  <2>3. structural'[s] = source'[s] /\ (s \in claims' <=> s \in claims)
    BY <1>1, <2>1, <2>2 DEF Without
  <2>4. witness'[source'[s]] = s
    BY <1>1, <2>1, <2>2 DEF Without
  <2> QED
    BY <2>1, <2>2, <2>3, <2>4 DEF Whole
<1>6. Untouched(p)'
  BY <1>1, <1>3, <1>5 DEF Untouched, Sound
<1>7. \A f \in c.changed : Mine(p, f)' \notin claims'
  <2> SUFFICES ASSUME NEW f \in c.changed PROVE Mine(p, f)' \notin claims
    BY <1>1 DEF Without
  <2>1. f \in Files /\ Mine(p, f)' = Mine(p, f) /\ source[Mine(p, f)] = Nil
    BY <1>1, <1>2 DEF Compile, Mine, Unborn, Planned
  <2> QED
    BY <2>1 DEF IInv, TypeOK, GraphClosed, Live
<1> QED
  BY <1>1, <1>2, <1>3, <1>6, <1>7 DEF ExactStage, Planned, Written

LEMMA InsertExact ==
  ASSUME IInv, Alone, NEW p \in Pipelines, NEW f \in Files, Insert(p, f), ExactStage(p)
  PROVE  ExactStage(p)'
<1> DEFINE c == comp[p]
           d == comp'[p]
           v == c.docs[f]
<1>1. /\ c \in Compile /\ c.at = "insert" /\ f \in c.left /\ Shape(p) /\ Mine(p, f) \in Sid
      /\ UNCHANGED <<disk, structural, claims, witness, compiles>>
      /\ source' = [source EXCEPT ![Mine(p, f)] = v] /\ PutBytes(f, v)
  BY TheCompile DEF Insert
<1>2. /\ d.at \in {"insert", "witness"} /\ d.docs = c.docs /\ d.num = c.num
      /\ d.changed = c.changed /\ d.left = c.left \ {f} /\ d.exact = c.exact
  BY <1>1 DEF Insert, IInv, TypeOK, Compile
<1> SUFFICES ASSUME d.exact PROVE ExactStage(p)'
  BY DEF ExactStage
<1>3. /\ c.docs = disk /\ Untouched(p)
      /\ \A g \in c.changed \ c.left : bytes[c.docs[g]] = c.docs[g]
      /\ \A g \in c.changed : Mine(p, g) \notin claims
  BY <1>1, <1>2 DEF ExactStage
<1>4. /\ Live' = Live \cup {Mine(p, f)} /\ Mine(p, f) \notin Live /\ v # Nil
      /\ \A s \in Live : source'[s] = source[s]
  BY <1>1, InsertSource
<1>5. v \in Versions /\ \A g \in c.changed : c.docs[g] \in Versions
  BY <1>1, <1>4 DEF Compile, Shape, Content
<1>6. /\ bytes'[v] = v
      /\ \A w \in Versions : bytes'[w] \in {Nil, w} /\ (bytes[w] # Nil => bytes'[w] = bytes[w])
  BY <1>1, <1>3, <1>5 DEF PutBytes, Untouched, IInv, TypeOK
<1>7. \A g \in d.changed \ d.left : bytes'[d.docs[g]] = d.docs[g]
  BY <1>2, <1>3, <1>5, <1>6, PipelineAssumption
<1>8. \A s \in Live' : s[2] \notin d.changed => Whole(s)'
  <2> SUFFICES ASSUME NEW s \in Live', s[2] \notin c.changed PROVE Whole(s)'
    BY <1>2
  <2>1. Mine(p, f)[2] = f /\ f \in c.changed
    BY <1>1 DEF Mine, Shape
  <2>2. s \in Live /\ source'[s] = source[s]
    BY <1>4, <2>1
  <2> QED
    BY <1>1, <1>3, <2>2 DEF Untouched, Whole
<1>9. Untouched(p)'
  BY <1>6, <1>8 DEF Untouched
<1>10. \A g \in d.changed : Mine(p, g)' \notin claims'
  BY <1>1, <1>2, <1>3 DEF Mine
<1> QED
  BY <1>1, <1>2, <1>3, <1>7, <1>9, <1>10 DEF ExactStage, Planned, Written

(* No other document has the content of this one, so its witnesses become its own. *)
LEMMA WitnessesExact ==
  ASSUME IInv, Within, Alone, OwnContent, NEW p \in Pipelines, PersistWitnesses(p), ExactStage(p)
  PROVE  ExactStage(p)'
<1> DEFINE c == comp[p]
           d == comp'[p]
<1>1. /\ c \in Compile /\ c.at = "witness" /\ c.left = {} /\ Shape(p)
      /\ UNCHANGED <<disk, source, structural, claims, bytes>>
      /\ witness' = [v \in Versions |-> WitnessOwner(p, v)]
  BY TheCompile DEF PersistWitnesses, Shape
<1>2. /\ d.at = "structural" /\ d.docs = c.docs /\ d.num = c.num
      /\ d.changed = c.changed /\ d.left = c.left /\ d.exact = c.exact
  BY <1>1 DEF PersistWitnesses, IInv, TypeOK, Compile
<1> SUFFICES ASSUME d.exact PROVE ExactStage(p)'
  BY DEF ExactStage
<1>3. /\ c.docs = disk /\ Untouched(p)
      /\ \A g \in c.changed : bytes[c.docs[g]] = c.docs[g]
      /\ \A g \in c.changed : Mine(p, g) \notin claims
  BY <1>1, <1>2 DEF ExactStage, Written
<1>4. \A g \in c.changed : /\ g \in Files /\ c.docs[g] \in Versions
                           /\ c.docs[g] \in ContentOf[g]
  BY <1>1 DEF Compile, Shape, Content, Within
<1>5. ASSUME NEW f \in c.changed PROVE witness'[c.docs[f]] = Mine(p, f)
  <2> DEFINE same == {g \in c.changed : c.docs[g] = c.docs[f]}
  <2>1. \A g \in same : g = f
    BY <1>4 DEF OwnContent
  <2>2. same = {f}
    BY <2>1
  <2>3. WitnessOwner(p, c.docs[f]) = Mine(p, CHOOSE g \in same : TRUE)
    BY <2>2, Zenon DEF WitnessOwner
  <2>4. (CHOOSE g \in same : TRUE) = f
    BY <2>2
  <2> QED
    BY <1>1, <1>4, <2>3, <2>4
<1>6. \A s \in Live : s[2] \notin c.changed => Whole(s)'
  <2> SUFFICES ASSUME NEW s \in Live, s[2] \notin c.changed PROVE Whole(s)'
    OBVIOUS
  <2>1. source[s] \in Versions /\ source[s] \in ContentOf[s[2]] /\ s[2] \in Files /\ Whole(s)
    BY <1>3 DEF Live, IInv, TypeOK, Content, Within, Sid, Untouched
  <2> DEFINE same == {g \in c.changed : c.docs[g] = source[s]}
  <2>2. same = {}
    BY <1>4, <2>1 DEF OwnContent
  <2>3. WitnessOwner(p, source[s]) = witness[source[s]]
    BY <2>2, Zenon DEF WitnessOwner
  <2> QED
    BY <1>1, <2>1, <2>3 DEF Whole
<1>7. Untouched(p)'
  BY <1>1, <1>2, <1>3, <1>6 DEF Untouched, Live
<1>8. \A g \in Files : Mine(p, g)' = Mine(p, g)
  BY <1>2 DEF Mine
<1> QED
  BY <1>1, <1>2, <1>3, <1>4, <1>5, <1>7, <1>8 DEF ExactStage, Planned, Written

LEMMA StructuralExact ==
  ASSUME IInv, Alone, NEW p \in Pipelines, PersistStructural(p), ExactStage(p)
  PROVE  ExactStage(p)'
<1> DEFINE c == comp[p]
           d == comp'[p]
<1>1. /\ c \in Compile /\ c.at = "structural" /\ c.left = {} /\ Shape(p)
      /\ \A f \in Files : Mine(p, f) \in Sid
      /\ UNCHANGED <<disk, source, claims, witness, bytes>>
  BY TheCompile DEF PersistStructural, Shape
<1>2. /\ d.at = "link" /\ d.docs = c.docs /\ d.num = c.num
      /\ d.changed = c.changed /\ d.left = c.left /\ d.exact = c.exact
  BY <1>1 DEF PersistStructural, IInv, TypeOK, Compile
<1> SUFFICES ASSUME d.exact PROVE ExactStage(p)'
  BY DEF ExactStage
<1>3. /\ c.docs = disk /\ Untouched(p)
      /\ \A g \in c.changed : /\ bytes[c.docs[g]] = c.docs[g] /\ Mine(p, g) \notin claims
                              /\ witness[c.docs[g]] = Mine(p, g)
  BY <1>1, <1>2 DEF ExactStage, Written
<1>4. ASSUME NEW f \in c.changed PROVE structural'[Mine(p, f)] = c.docs[f]
  <2>1. f \in Files /\ c.docs[f] # Nil /\ bytes[c.docs[f]] = c.docs[f]
    BY <1>1, <1>3 DEF Compile, Shape
  <2>2. Mine(p, f) \in Sid /\ Mine(p, f)[1] = c.num /\ Mine(p, f)[2] = f
    BY <1>1, <2>1 DEF Mine
  <2> QED
    BY <2>1, <2>2 DEF PersistStructural
<1>5. \A s \in Live : s[2] \notin c.changed => Whole(s)'
  <2> SUFFICES ASSUME NEW s \in Live, s[2] \notin c.changed PROVE Whole(s)'
    OBVIOUS
  <2>1. s \in Sid /\ Whole(s)
    BY <1>3 DEF Live, Untouched
  <2>2. structural'[s] = structural[s]
    BY <2>1 DEF PersistStructural
  <2> QED
    BY <1>1, <2>1, <2>2 DEF Whole
<1>6. Untouched(p)' /\ \A g \in Files : Mine(p, g)' = Mine(p, g)
  BY <1>1, <1>2, <1>3, <1>5 DEF Untouched, Live, Mine
<1>7. c.changed \subseteq Files
  BY <1>1 DEF Compile
<1> QED
  BY <1>1, <1>2, <1>3, <1>4, <1>6, <1>7 DEF ExactStage, Planned, Written

LEMMA LinkExact ==
  ASSUME IInv, Alone, NEW p \in Pipelines, Link(p), ExactStage(p) PROVE ExactStage(p)'
<1> DEFINE c == comp[p]
           d == comp'[p]
           new == {s \in Sid : /\ s[1] = c.num /\ s[2] \in c.changed
                               /\ c.docs[s[2]] \in Claimed}
<1>1. /\ c \in Compile /\ c.at = "link" /\ c.left = {} /\ Shape(p) /\ c.changed \subseteq Files
      /\ \A f \in Files : Mine(p, f) \in Sid
      /\ UNCHANGED <<disk, source, structural, witness, bytes>>
      /\ claims' = claims \cup new
  BY TheCompile DEF Link, Shape, Compile
<1>2. /\ d.at = "audit" /\ d.docs = c.docs /\ d.num = c.num
      /\ d.changed = c.changed /\ d.left = c.left /\ d.exact = c.exact
  BY <1>1 DEF Link, IInv, TypeOK, Compile
<1> SUFFICES ASSUME d.exact PROVE ExactStage(p)'
  BY DEF ExactStage
<1>3. /\ c.docs = disk /\ Untouched(p)
      /\ \A g \in c.changed : /\ bytes[c.docs[g]] = c.docs[g] /\ Mine(p, g) \notin claims
                              /\ witness[c.docs[g]] = Mine(p, g)
                              /\ structural[Mine(p, g)] = c.docs[g]
  BY <1>1, <1>2 DEF ExactStage, Written
<1>4. \A f \in c.changed : Mine(p, f) \in claims' <=> c.docs[f] \in Claimed
  <2> TAKE f \in c.changed
  <2>1. Mine(p, f) \in new <=> c.docs[f] \in Claimed
    BY <1>1 DEF Mine
  <2> QED
    BY <1>1, <1>3, <2>1
<1>5. \A s \in Live : s[2] \notin c.changed => Whole(s)'
  BY <1>1, <1>3 DEF Whole, Untouched
<1>6. Untouched(p)' /\ \A g \in Files : Mine(p, g)' = Mine(p, g)
  BY <1>1, <1>2, <1>3, <1>5 DEF Untouched, Live, Mine
<1> QED
  BY <1>1, <1>2, <1>3, <1>4, <1>6 DEF ExactStage, Planned, Written

LEMMA EndExact ==
  ASSUME IInv, Alone, NEW p \in Pipelines, Audit(p) \/ Save(p), ExactStage(p)
  PROVE  ExactStage(p)'
<1> DEFINE c == comp[p]
           d == comp'[p]
<1>1. /\ c \in Compile /\ c.at \in {"audit", "save"} /\ c.left = {} /\ Shape(p)
      /\ c.changed \subseteq Files /\ UNCHANGED <<disk, graph, bytes>>
  BY TheCompile DEF Audit, Save, Shape, Compile
<1>2. CASE d = NoCompile
  <2>1. comp'[p].exact = FALSE
    BY <1>2 DEF NoCompile
  <2> QED
    BY <2>1, InexactStage
<1>3. CASE d # NoCompile
  <2>1. /\ d.at \in {"save", "done"} /\ d.docs = c.docs /\ d.num = c.num
        /\ d.changed = c.changed /\ d.left = c.left /\ d.exact = c.exact
    BY <1>1, <1>3 DEF Audit, Save, IInv, TypeOK, Compile
  <2> SUFFICES ASSUME d.exact PROVE ExactStage(p)'
    BY DEF ExactStage
  <2>2. Untouched(p)' /\ \A g \in Files : Mine(p, g)' = Mine(p, g)
    BY <1>1, <2>1 DEF ExactStage, Written, Untouched, Whole, Live, Mine, graph
  <2>3. c.docs = disk
    BY <1>1, <2>1 DEF ExactStage
  <2>4. \A g \in c.changed : /\ bytes[c.docs[g]] = c.docs[g]
                             /\ Mine(p, g) \in claims <=> c.docs[g] \in Claimed
                             /\ witness[c.docs[g]] = Mine(p, g)
                             /\ structural[Mine(p, g)] = c.docs[g]
    BY <1>1, <2>1 DEF ExactStage, Written
  <2> QED
    BY <1>1, <2>1, <2>2, <2>3, <2>4 DEF ExactStage, Planned, Written, graph
<1> QED
  BY <1>2, <1>3

LEMMA StepExact ==
  ASSUME EInv, Alone, OwnContent, [Next]_vars PROVE EInv'
<1>1. IInv' /\ Within' /\ IInv /\ Within /\ \A p \in Pipelines : ExactStage(p)
  BY StepIInv, WithinStep DEF EInv
<1>2. ASSUME NEW p \in Pipelines PROVE ExactStage(p)'
  <2>1. CASE UNCHANGED vars
    BY <1>1, <2>1 DEF vars, graph, ExactStage, Sound, Untouched, Whole, Live, Mine
  <2>2. CASE \E f \in Files : Edit(f)
    BY <1>1, <2>2, EditExact
  <2>3. CASE \E full \in BOOLEAN, unread \in SUBSET Files : Parse(p, full, unread)
    BY <1>1, <2>3, ParseExact
  <2>4. CASE \E f \in Files : InsertStops(p, f)
    <3>1. comp'[p].exact = FALSE
      BY <1>1, <2>4 DEF InsertStops, NoCompile, IInv, TypeOK
    <3> QED
      BY <3>1, InexactStage
  <2>5. CASE Interrupt(p)
    <3>1. comp'[p].exact = FALSE
      BY <1>1, <2>5 DEF Interrupt, NoCompile, IInv, TypeOK
    <3> QED
      BY <3>1, InexactStage
  <2>6. CASE Phase(p)
    BY <1>1, <2>4, <2>6, DiffExact, PlanExact, RemoveExact, InsertExact, WitnessesExact,
       StructuralExact, LinkExact, EndExact DEF Phase
  <2>7. \A q \in Pipelines : q = p
    BY DEF Alone
  <2> QED
    BY <2>1, <2>2, <2>3, <2>5, <2>6, <2>7 DEF Next
<1> QED
  BY <1>1, <1>2 DEF EInv

LEMMA InitEInv == Init => EInv
<1> SUFFICES ASSUME Init PROVE EInv
  OBVIOUS
<1>1. Live = {} /\ \A p \in Pipelines : comp[p] = NoCompile
  BY DEF Init, Live
<1>2. ASSUME NEW p \in Pipelines
      PROVE  ExactStage(p) /\ comp[p].docs = [f \in Files |-> Nil]
  <2>1. comp[p].exact = FALSE /\ comp[p].docs = [f \in Files |-> Nil]
    BY <1>1 DEF NoCompile
  <2> QED
    BY <2>1 DEF ExactStage
<1>3. Within
  BY <1>1, <1>2 DEF Within, Init
<1> QED
  BY <1>2, <1>3, InitIInv DEF EInv

LEMMA DoneIsSound == ASSUME EInv PROVE CompileExact
<1> SUFFICES ASSUME NEW p \in Pipelines, comp[p].at = "done", comp[p].exact PROVE Sound
  BY DEF CompileExact
<1>1. /\ comp[p] \in Compile /\ Shape(p) /\ Outcome(p) /\ GraphClosed /\ ExactStage(p)
      /\ comp[p].left = {} /\ comp[p].num \in 1 .. MaxCompiles /\ comp[p].changed \subseteq Files
  BY PipelineAssumption DEF EInv, IInv, TypeOK, Compile, Shape
<1>2. Untouched(p)
  BY <1>1 DEF ExactStage, Written
<1>3. ASSUME NEW s \in Live PROVE Whole(s)
  <2>1. CASE s[2] \notin comp[p].changed
    BY <1>2, <2>1 DEF Untouched
  <2>2. CASE s[2] \in comp[p].changed
    <3> DEFINE f == s[2]
               m == Mine(p, f)
    <3>1. source[m] = comp[p].docs[f] /\ comp[p].docs[f] # Nil /\ m \in Sid /\ m[2] = f
      <4>1. m \in Sid /\ m[2] = f
        BY <1>1, <2>2, PipelineAssumption DEF Mine, Sid
      <4> QED
        BY <1>1, <2>2, <4>1 DEF Outcome, Written, Shape
    <3>2. m = s
      BY <1>1, <3>1 DEF Live, GraphClosed
    <3>3. /\ witness[comp[p].docs[f]] = m /\ structural[m] = comp[p].docs[f]
          /\ m \in claims <=> comp[p].docs[f] \in Claimed
      BY <1>1, <2>2 DEF ExactStage
    <3> HIDE DEF m
    <3> QED
      BY <3>1, <3>2, <3>3 DEF Whole
  <2> QED
    BY <2>1, <2>2
<1> QED
  BY <1>2, <1>3 DEF Sound, Untouched, Whole

(* One compile at a time, and no content in two files: a compile that starts on a sound graph
   and that nothing disturbs leaves a sound graph, every layer rebuilt from what it parsed. *)
THEOREM UndisturbedIsExact == ASSUME Alone, OwnContent PROVE Spec => []CompileExact
<1>1. EInv /\ [Next]_vars => EInv'
  BY StepExact
<1> QED
  BY InitEInv, DoneIsSound, <1>1, PTL DEF Spec
==============================================================================
