------------------------------ MODULE Candidates ------------------------------
(***************************************************************************)
(* Candidates on their way into the registry: the merge of what several    *)
(* sources say of a repository (source/types.go), Registry.Merge and       *)
(* UpsertRepository for the fields that identify it (its names and the     *)
(* sources that list it), and the names kept by preservePreviousNames.     *)
(*                                                                         *)
(* On GitHub a repository may be renamed and its old name taken by another *)
(* one.  Sources that do not ask GitHub may deliver names of the past and  *)
(* candidates of earlier instants.  Instants are even numbers, so that an  *)
(* odd one is "a nanosecond before".                                       *)
(***************************************************************************)
EXTENDS Integers, FiniteSetsExt

CONSTANTS Repos,       \* GitHub repository IDs
          Names,       \* full names
          Channels,    \* discovery sources of the instance
          MaxInstant,  \* bound: the clock
          MaxFound     \* bound: candidates of a discovery

ASSUME CandidatesAssumption ==
    /\ Channels \subseteq {"ossinsight", "github_search", "github_trending", "legacy", "manual"}
    /\ {MaxInstant, MaxFound} \subseteq Nat
    /\ Cardinality(Names) >= Cardinality(Repos)

VARIABLES title,  \* GitHub: the name of each repository
          past,   \* GitHub: the names each had so far
          now,
          row,    \* the registry
          batch,  \* a discovery
          met     \* some name of a candidate stored without a failure (history)

candidateVars == <<title, past, now, row, batch, met>>

Instants == {2 * i : i \in 0..MaxInstant}
Absent   == [repo |-> "absent"]

(* A merged candidate of one repository. *)
Candidate == [source   : Channels, \* the first source
              name     : Names,
              priority : 0..3,     \* of the source that gave the name
              previous : SUBSET Names,
              sources  : SUBSET Channels,
              at       : Instants]

(* The code keeps the last 20 previous names; here all of them. *)
RegistryRow ==
    {x \in [name : Names, previous : SUBSET Names, sources : SUBSET Channels, last : Instants] :
        x.name \notin x.previous}

(* Repositories of a discovery meet only where a name is taken, so a       *)
(* discovery is modelled for one of them.                                  *)
Batch == [pc     : {"idle", "collect", "store", "rest"},
          repo   : Repos \cup {Absent},
          found  : Candidate \cup {Absent},
          size   : 0..MaxFound,
          more   : SUBSET Channels,  \* sources to store it under as well
          names  : SUBSET Names,     \* previous names to keep
          failed : BOOLEAN]          \* one of these could not be stored

NoBatch == [pc |-> "idle", repo |-> Absent, found |-> Absent, size |-> 0,
            more |-> {}, names |-> {}, failed |-> FALSE]

CandidatesTypeOK ==
    /\ title \in [Repos -> Names] /\ past \in [Repos -> SUBSET Names]
    /\ now \in Instants
    /\ row \in [Repos -> RegistryRow \cup {Absent}]
    /\ batch \in Batch
    /\ met \in [repo : Repos, name : Names] \cup {Absent}

CandidatesInit ==
    /\ title \in [Repos -> Names] /\ \A r, s \in Repos : r # s => title[r] # title[s]
    /\ past = [r \in Repos |-> {title[r]}]
    /\ now = 0
    /\ row = [r \in Repos |-> Absent]
    /\ batch = NoBatch
    /\ met = Absent

(***************************************************************************)
(* GitHub.  Bound: time passes with the renames.                           *)
(***************************************************************************)
Rename(r, name) ==
    /\ \A s \in Repos : title[s] # name
    /\ now + 2 \in Instants
    /\ now' = now + 2
    /\ title' = [title EXCEPT ![r] = name]
    /\ past' = [past EXCEPT ![r] = @ \cup {name}]
    /\ UNCHANGED <<row, batch, met>>

(***************************************************************************)
(* MergeCandidates.                                                        *)
(***************************************************************************)
SourcePriority(source) ==
    CASE source \in {"github_search", "github_trending", "manual"} -> 3
      [] source = "ossinsight" -> 2
      [] source = "legacy" -> 1

(* The loop of MergeCandidates for the next candidate of a repository.     *)
(* The first one gives the source and the instant; equal names leave the   *)
(* priority of the name alone.                                             *)
MergeCandidate(old, c) ==
    IF old = Absent THEN c
    ELSE LET wins == c.name # old.name /\ c.priority >= old.priority
             lost == IF c.name = old.name THEN {} ELSE IF wins THEN {old.name} ELSE {c.name}
         IN  [old EXCEPT !.name = IF wins THEN c.name ELSE @,
                         !.priority = IF wins THEN c.priority ELSE @,
                         !.previous = @ \cup lost \cup c.previous,
                         !.sources = @ \cup c.sources]

(* Registry.Merge merges the merged candidates once more: each of them is  *)
(* now the first of its repository, with its own source's priority.        *)
Remerged(c) == MergeCandidate(Absent, [c EXCEPT !.priority = SourcePriority(c.source)])

StartBatch(r) ==
    /\ batch.pc = "idle"
    /\ batch' = [NoBatch EXCEPT !.pc = "collect", !.repo = r]
    /\ UNCHANGED <<title, past, now, row, met>>

(* A source delivers the repository: under its name on GitHub, or under    *)
(* one of the past.  The watchlist knows former names; the legacy database *)
(* its own instants.                                                       *)
Collect(source) ==
    LET r == batch.repo
    IN  /\ batch.pc = "collect"
        /\ batch.size < MaxFound
        /\ \E name \in IF SourcePriority(source) = 3 THEN {title[r]} ELSE past[r],
              at \in IF source = "legacy" THEN {i \in Instants : i <= now} ELSE {now},
              former \in IF source = "manual" THEN {{n} : n \in past[r] \ {title[r]}} \cup {{}} ELSE {{}} :
              batch' = [batch EXCEPT !.size = @ + 1,
                           !.found = MergeCandidate(@, [source |-> source, name |-> name,
                                                        priority |-> SourcePriority(source),
                                                        previous |-> former, sources |-> {source},
                                                        at |-> at])]
        /\ UNCHANGED <<title, past, now, row, met>>

Merge ==
    /\ batch.pc = "collect"
    /\ batch.found # Absent
    /\ batch' = [batch EXCEPT !.pc = "store", !.size = 0, !.found = Remerged(@)]
    /\ UNCHANGED <<title, past, now, row, met>>

(***************************************************************************)
(* UpsertRepository.                                                       *)
(***************************************************************************)
(* ensureFullNameIdentity: no other repository bears the name. *)
NameIsFree(r, name) == \A s \in Repos \ {r} : row[s] # Absent => row[s].name # name

(* shouldAdoptObservedName. *)
Adopts(old, name, at) == name = old.name \/ at >= old.last

(* Faulty variant: only a new row needs a free name. *)
MayStoreUnchecked(r, name, at) == row[r] # Absent \/ NameIsFree(r, name)

MayStore(r, name, at) ==
    (row[r] = Absent \/ Adopts(row[r], name, at)) => NameIsFree(r, name)

(* Faulty variant: a repository that goes back to a name keeps it as former. *)
NamedAgain(old, name, at) ==
    IF name = old.name THEN old
    ELSE IF Adopts(old, name, at) THEN [old EXCEPT !.name = name, !.previous = @ \cup {old.name}]
    ELSE [old EXCEPT !.previous = @ \cup {name}]

(* mergeRepositoryObservation: an adopted name leaves the former names. *)
Named(old, name, at) ==
    IF name = old.name THEN old
    ELSE IF Adopts(old, name, at)
    THEN [old EXCEPT !.name = name, !.previous = (@ \ {name}) \cup {old.name}]
    ELSE [old EXCEPT !.previous = @ \cup {name}]

Upserted(r, name, source, at) ==
    IF row[r] = Absent
    THEN [name |-> name, previous |-> {}, sources |-> {source}, last |-> at]
    ELSE [Named(row[r], name, at) EXCEPT !.sources = @ \cup {source}, !.last = Max({@, at})]

Upsert(r, name, source, at) ==
    /\ MayStore(r, name, at)
    /\ row' = [row EXCEPT ![r] = Upserted(r, name, source, at)]

(* Registry.Merge: the candidate under its first source; one that cannot be *)
(* stored, because its name is taken or for an error, is left out.          *)
StoreFirst ==
    LET c == batch.found
        r == batch.repo
    IN  /\ batch.pc = "store"
        /\ \/ /\ Upsert(r, c.name, c.source, c.at)
              /\ batch' = [batch EXCEPT !.pc = "rest", !.more = c.sources \ {c.source},
                                        !.names = c.previous \ {row'[r].name}]
           \/ batch' = NoBatch /\ UNCHANGED row
        /\ UNCHANGED <<title, past, now, met>>

(* persistAdditionalSources: once more for each other source, until one    *)
(* fails.                                                                  *)
StoreSource(source) ==
    LET c == batch.found
    IN  /\ batch.pc = "rest"
        /\ source \in batch.more
        /\ \/ /\ Upsert(batch.repo, c.name, source, c.at)
              /\ batch' = [batch EXCEPT !.more = @ \ {source}]
           \/ batch' = [batch EXCEPT !.more = {}, !.failed = TRUE] /\ UNCHANGED row
        /\ UNCHANGED <<title, past, now, met>>

(* preservePreviousNames: an observation older than the row's, so that the *)
(* name is not adopted.                                                    *)
JustBefore(c, r) == IF c.at < row[r].last THEN c.at ELSE row[r].last - 1

PreserveName(name) ==
    LET c == batch.found
        r == batch.repo
    IN  /\ batch.pc = "rest"
        /\ batch.more = {}
        /\ name \in batch.names
        /\ \/ /\ Upsert(r, name, c.source, JustBefore(c, r))
              /\ batch' = [batch EXCEPT !.names = @ \ {name}]
           \/ batch' = [batch EXCEPT !.names = @ \ {name}, !.failed = TRUE] /\ UNCHANGED row
        /\ UNCHANGED <<title, past, now, met>>

BatchDone ==
    LET c == batch.found
    IN  /\ batch.pc = "rest"
        /\ batch.more = {}
        /\ batch.names = {}
        /\ batch' = NoBatch
        /\ met' \in {met} \cup {[repo |-> batch.repo, name |-> n] :
                                 n \in IF batch.failed THEN {} ELSE c.previous \cup {c.name}}
        /\ UNCHANGED <<title, past, now, row>>

(* A crash, or a cancelled context. *)
AbortBatch ==
    /\ batch.pc # "idle"
    /\ batch' = NoBatch
    /\ UNCHANGED <<title, past, now, row, met>>

(* Another writer: a snapshot run or an add that asked GitHub. *)
Refresh(r) ==
    /\ row[r] # Absent
    /\ \E source \in row[r].sources : Upsert(r, title[r], source, now)
    /\ UNCHANGED <<title, past, now, batch, met>>

CandidatesNext ==
    \/ \E r \in Repos, name \in Names : Rename(r, name)
    \/ \E r \in Repos : StartBatch(r) \/ Refresh(r)
    \/ \E source \in Channels : Collect(source) \/ StoreSource(source)
    \/ Merge
    \/ StoreFirst
    \/ \E name \in Names : PreserveName(name)
    \/ BatchDone
    \/ AbortBatch

CandidatesSpec == CandidatesInit /\ [][CandidatesNext]_candidateVars

(* Identity outlives names: no two repositories of the registry bear one   *)
(* name, and every name and source under which a candidate was stored      *)
(* without a reported failure can still be found at its repository,        *)
(* whatever the order of sources, renames and other writers                *)
(* (MergeCandidates, UpsertRepository, preservePreviousNames).             *)
IdentityOutlivesNames ==
    /\ met # Absent => met.name \in {row[met.repo].name} \cup row[met.repo].previous
    /\ \A r \in Repos : row[r] # Absent =>
        /\ NameIsFree(r, row[r].name)
        /\ (batch.pc = "rest" /\ batch.more = {} /\ r = batch.repo /\ ~batch.failed)
              => batch.found.sources \subseteq row[r].sources
=============================================================================
