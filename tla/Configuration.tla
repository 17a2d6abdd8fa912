--------------------------- MODULE Configuration ---------------------------
(***************************************************************************)
(* How the settings of an operation are resolved from YAML layers           *)
(* (configuration/layers.py, merging.py), what "config explain" says of     *)
(* where each one comes from (provenance.py), and how keys a newer version  *)
(* no longer knows are removed from the files of the user, which he may be  *)
(* editing meanwhile (normalization.py).                                    *)
(*                                                                         *)
(* A document maps sections to mappings of keys.  Profile and host decide   *)
(* only which files are the layers of a resolution: each loader has its     *)
(* own.  Deeper nesting is left out.                                        *)
(***************************************************************************)
EXTENDS Integers, Sequences, Functions

CONSTANTS
  Loaders,    \* resolutions, of one process or several
  Rewriting,  \* those called with rewrite_user_layers
  Layers,     \* Layers[l]: the files loader l reads, the weakest first
  Documents,  \* what the user may write
  Defaults,   \* DEFAULT_CONFIG with the bundled baseline: every setting
  Obsolete,   \* keys no section has any more
  Invalid,    \* values no setting accepts
  MaxEdits    \* bound: how often a file is edited

FileNames == UNION {Range(Layers[l]) : l \in Loaders}
Sections == DOMAIN Defaults

VARIABLES
  files,     \* files[f]: the document in file f, or the empty one
  edits,     \* how often the user has saved a file
  position,  \* position[l]: how many layers loader l has read
  data,      \* data[l]: what it has merged
  origins,   \* origins[l]: the layer each path was last set by, 0 the defaults
  seen,      \* seen[l]: the layers, as sanitized
  cleanups,  \* cleanups[l]: the files it is to rewrite, with what it read
  state      \* state[l]: "reading", "cleaning", "replacing", "resolved", "failed"

configVars == <<files, edits, position, data, origins, seen, cleanups, state>>

Nothing == [s \in {} |-> {}]

\* _sanitize_user_layer: a section all of whose keys are obsolete stays, empty.
Sanitized(doc) == [s \in DOMAIN doc |-> Restrict(doc[s], DOMAIN doc[s] \ Obsolete)]

IsValid(doc) == \A s \in DOMAIN doc : Range(doc[s]) \cap Invalid = {}

\* deep_merge.
DeepMerge(base, doc) ==
  [s \in Sections |->
     IF s \in DOMAIN doc
     THEN [k \in DOMAIN base[s] \cup DOMAIN doc[s] |->
             IF k \in DOMAIN doc[s] THEN doc[s][k] ELSE base[s][k]]
     ELSE base[s]]

\* _flatten: the path of a value, or of an empty mapping.
Paths(doc) ==
  {<<s>> : s \in {t \in DOMAIN doc : doc[t] = Nothing}}
    \cup UNION {{<<s, k>> : k \in DOMAIN doc[s]} : s \in DOMAIN doc}

Below(p, q) == Len(p) <= Len(q) /\ SubSeq(q, 1, Len(p)) = p

\* Mutant: the first layer that sets a path stays its origin.
RecordFirst(known, doc, label) ==
  [q \in DOMAIN known \cup Paths(doc) |-> IF q \in DOMAIN known THEN known[q] ELSE label]

\* _record_origins: what is below a path of the layer is forgotten first.
RecordOrigins(known, doc, label) ==
  LET kept == {q \in DOMAIN known : \A p \in Paths(doc) : ~Below(p, q)}
  IN [q \in kept \cup Paths(doc) |-> IF q \in Paths(doc) THEN label ELSE known[q]]

ConfigInit ==
  /\ files \in [FileNames -> Documents]
  /\ edits = 0
  /\ position = [l \in Loaders |-> 0]
  /\ data = [l \in Loaders |-> Defaults]
  /\ origins = [l \in Loaders |-> [p \in Paths(Defaults) |-> 0]]
  /\ seen = [l \in Loaders |-> <<>>]
  /\ cleanups = [l \in Loaders |-> <<>>]
  /\ state = [l \in Loaders |-> "reading"]

\* _read_layer and _merge_layer.  A missing file is an empty document, and a
\* layer that is not valid by itself ends the resolution.
ReadLayer(l) ==
  /\ state[l] = "reading"
  /\ position[l] < Len(Layers[l])
  /\ LET n == position[l] + 1
         file == Layers[l][n]
         doc == Sanitized(files[file])
     IN IF IsValid(doc)
        THEN /\ position' = [position EXCEPT ![l] = n]
             /\ data' = [data EXCEPT ![l] = DeepMerge(@, doc)]
             /\ origins' = [origins EXCEPT ![l] = RecordOrigins(@, doc, n)]
             /\ seen' = [seen EXCEPT ![l] = Append(@, doc)]
             /\ cleanups' = [cleanups EXCEPT ![l] =
                  IF l \in Rewriting /\ doc # files[file]
                  THEN Append(@, [file |-> file, source |-> files[file]]) ELSE @]
             /\ UNCHANGED state
        ELSE /\ state' = [state EXCEPT ![l] = "failed"]
             /\ UNCHANGED <<position, data, origins, seen, cleanups>>
  /\ UNCHANGED <<files, edits>>

\* Every layer has been read.  Layers that are valid one by one need not be so
\* together.  Only if they are, files are rewritten, one after the other.
Resolve(l) ==
  /\ state[l] = "reading"
  /\ position[l] = Len(Layers[l])
  /\ \E valid \in BOOLEAN :
       state' = [state EXCEPT ![l] = CASE ~valid -> "failed"
                                       [] valid /\ cleanups[l] = <<>> -> "resolved"
                                       [] valid /\ cleanups[l] # <<>> -> "cleaning"]
  /\ UNCHANGED <<files, edits, position, data, origins, seen, cleanups>>

\* The comparisons of _apply_cleanup and _atomic_replace, of which the second
\* decides: a file that is not what was read any more is left alone, and the
\* resolution fails.
Compare(l) ==
  /\ state[l] = "cleaning"
  /\ state' = [state EXCEPT ![l] =
       IF files[Head(cleanups[l]).file] = Head(cleanups[l]).source THEN "replacing" ELSE "failed"]
  /\ UNCHANGED <<files, edits, position, data, origins, seen, cleanups>>

\* os.replace.
Replace(l) ==
  /\ state[l] = "replacing"
  /\ files' = [files EXCEPT ![Head(cleanups[l]).file] = Sanitized(Head(cleanups[l]).source)]
  /\ cleanups' = [cleanups EXCEPT ![l] = Tail(@)]
  /\ state' = [state EXCEPT ![l] = IF Len(cleanups[l]) = 1 THEN "resolved" ELSE "cleaning"]
  /\ UNCHANGED <<edits, position, data, origins, seen>>

\* The user saves a file.
Edit(f) ==
  /\ edits < MaxEdits
  /\ edits' = edits + 1
  /\ \E doc \in Documents : files' = [files EXCEPT ![f] = doc]
  /\ UNCHANGED <<position, data, origins, seen, cleanups, state>>

ConfigDone ==
  /\ \A l \in Loaders : state[l] \in {"resolved", "failed"}
  /\ edits = MaxEdits
  /\ UNCHANGED configVars

ConfigNext ==
  \/ \E l \in Loaders : ReadLayer(l) \/ Resolve(l) \/ Compare(l) \/ Replace(l)
  \/ \E f \in FileNames : Edit(f)
  \/ ConfigDone

ConfigSpec == ConfigInit /\ [][ConfigNext]_configVars

----------------------------------------------------------------------------

Settings == {p \in Paths(Defaults) : Len(p) = 2}

\* The layers loader l has found setting p in, and the one that counts.
Setting(l, p) == {n \in DOMAIN seen[l] : p \in Paths(seen[l][n])}
Strongest(l, p) ==
  IF Setting(l, p) = {} THEN 0 ELSE CHOOSE n \in Setting(l, p) : \A m \in Setting(l, p) : m <= n

ValueIn(l, n, p) == IF n = 0 THEN Defaults[p[1]][p[2]] ELSE seen[l][n][p[1]][p[2]]

\* Whatever sections and keys the layers name, and whoever edits or rewrites
\* the files meanwhile: each setting has the value of the strongest layer that
\* names it, and an origin that is given for it is that layer.
OriginsAreTrue ==
  \A l \in Loaders : state[l] # "failed" =>
    \A p \in Settings :
      /\ data[l][p[1]][p[2]] = ValueIn(l, Strongest(l, p), p)
      /\ p \in DOMAIN origins[l] => origins[l][p] = Strongest(l, p)

\* origins is a mapping from effective dotted keys to their sources.
OriginsExplain ==
  \A l \in Loaders : state[l] = "resolved" => Settings \subseteq DOMAIN origins[l]

=============================================================================
