------------------------------ MODULE Catalogue ------------------------------
(***************************************************************************)
(* What is said about a repository beside its numbers: its categories      *)
(* (store/sqlite/topic.go, service/topic, service/classification) and its  *)
(* saved analysis (store/sqlite/analysis.go, analysis_batch.go).           *)
(*                                                                         *)
(* Categories come from people, from the classification of a discovery or  *)
(* of 'topic reclassify', and from imported candidates; the processes that *)
(* bring them run side by side and each assignment is a transaction of its *)
(* own.  A name and description are the set of the capabilities they       *)
(* mention, GitHub's labels one name for each group of synonyms.           *)
(***************************************************************************)
EXTENDS Integers, SequencesExt, FiniteSetsExt

CONSTANTS Writers,    \* processes that assign categories or import analyses
          Projects,   \* repositories
          Slugs,      \* topics of the database or of the configuration
          Configured, \* topics of the configuration
          Texts,      \* names and descriptions: sets of capabilities
          Labels,     \* sets of GitHub labels
          Curated,    \* topics of a curated repository
          MaxRevision \* bound: revisions of an analysis

ASSUME CatalogueAssumption ==
    /\ Configured \subseteq Slugs
    /\ IsFiniteSet(Projects) /\ IsFiniteSet(Curated)
    /\ MaxRevision \in Nat \ {0}

VARIABLES topics,   \* the slugs of the topics table
          text,     \* the metadata of a repository
          assigned, \* repository_topics
          task,     \* the processes at work
          analysis  \* repository_analyses

catalogueVars == <<topics, text, assigned, task, analysis>>

Sources == {"manual", "github", "imported", "auto"}

Assignment == [source : Sources, confirmed : BOOLEAN, confidence : 0..100]
NoAssignment == [source |-> "none", confirmed |-> FALSE, confidence |-> 0]

Match == [repo : Projects, slug : Slugs, confidence : 0..100]
Order == [repo : Projects, slug : Slugs, source : Sources, confidence : 0..100]

Task == [pc       : {"idle", "ensure", "read", "assign", "summary"},
         missing  : SUBSET Configured,     \* topics to make sure of
         orders   : Seq(Order),            \* assignments to make
         repo     : Projects \cup {0}]     \* the analysed repository

NoTask == [pc |-> "idle", missing |-> {}, orders |-> <<>>, repo |-> 0]

NoAnalysis == [revision |-> 0, batch |-> FALSE]

CatalogueTypeOK ==
    /\ topics \subseteq Slugs
    /\ text \in [Projects -> Texts]
    /\ assigned \in [Projects -> [Slugs -> Assignment \cup {NoAssignment}]]
    /\ task \in [Writers -> Task]
    /\ analysis \in [Projects -> [revision : 0..MaxRevision, batch : BOOLEAN]]

(* A database of an earlier version may hold labels of GitHub as           *)
(* categories, which no operation writes any more.                         *)
CatalogueInit ==
    /\ topics \in SUBSET Slugs
    /\ Slugs \ Configured \subseteq topics
    /\ text \in [Projects -> Texts]
    /\ assigned \in [Projects -> [Slugs -> {NoAssignment} \cup
           {[source |-> "github", confirmed |-> FALSE, confidence |-> 100]}]]
    /\ \A r \in Projects, s \in Slugs : assigned[r][s] # NoAssignment => s \in topics
    /\ task = [p \in Writers |-> NoTask]
    /\ analysis = [r \in Projects |-> NoAnalysis]

(***************************************************************************)
(* Classification.                                                         *)
(***************************************************************************)
Rule(slug, confidence, labels, texts) ==
    [slug |-> slug, confidence |-> confidence, labels |-> labels, texts |-> texts]

(* Categories that a label of their own establishes. *)
LabelRules ==
    {Rule("coding-agents", 90, {"coding-agents"}, {"coding", "assistant"}),
     Rule("research-agents", 90, {"research-agents"}, {"research"}),
     Rule("browser-computer-agents", 90, {"computer-use"}, {"browser"}),
     Rule("ai-infrastructure", 85, {"model-serving"}, {"serving"})}

(* Categories that need an explicit mention of AI besides. *)
ContextRules ==
    {Rule("workflow-agents", 85, {"agent-workflow"}, {"workflow"}),
     Rule("agent-platforms", 85, {"multi-agent", "agent-framework"}, {"multi-agent", "platform"}),
     Rule("multi-agent", 90, {"multi-agent"}, {"multi-agent", "fleet"}),
     Rule("skills", 90, {"agent-skills"}, {"skills"}),
     Rule("memory", 90, {"agent-memory"}, {"memory"}),
     Rule("harness", 85, {"agent-harness"}, {"harness"}),
     Rule("browser-and-tools", 90, {"mcp"}, {"mcp"}),
     Rule("reliability", 90, {"llm-evaluation"}, {"evaluation"}),
     Rule("ai-infrastructure", 90, {"agent-skills", "agent-memory", "mcp", "llm-evaluation"},
                                   {"skills", "memory", "mcp", "evaluation"}),
     Rule("ai-infrastructure", 85, {"agent-harness"}, {"harness"})}

Meets(rule, words, labels) == rule.labels \cap labels # {} \/ rule.texts \cap words # {}

MentionsAI(words, labels) ==
    words \cap {"ai", "coding"} # {} \/ labels \cap {"ai", "ai-agent", "agent-skills", "mcp"} # {}

(* Every capability the metadata establishes, resources none at all.       *)
Claims(words, labels) ==
    LET ai      == MentionsAI(words, labels)
        host    == ai /\ words \cap {"fleet", "manager"} # {}
        own     == {rule \in LabelRules : /\ rule.labels \cap labels # {} \/ (ai /\ rule.texts \cap words # {})
                                          /\ rule.slug = "coding-agents" => ~host}
        context == {rule \in ContextRules : ai /\ Meets(rule, words, labels)}
        curated == IF "curated" \in words THEN {Rule(s, 98, {}, {}) : s \in Curated} ELSE {}
        found   == own \cup context \cup curated
                   \cup (IF host THEN {Rule("agent-platforms", 85, {}, {})} ELSE {})
    IN  IF "resource" \in words THEN {}
        ELSE IF found = {} /\ ("ai-agent" \in labels \/ "agent" \in words)
             THEN {Rule("ai-agent", 75, {}, {})}
             ELSE found

(* Infer: the best established confidence of each category. *)
Infer(words, labels) ==
    LET claims == Claims(words, labels)
    IN  {[slug |-> s, confidence |-> Max({c.confidence : c \in {d \in claims : d.slug = s}})] :
            s \in {c.slug : c \in claims}}

(***************************************************************************)
(* Assignments.                                                            *)
(***************************************************************************)
(* Faulty variant: a confidence of zero is no decision. *)
ProtectedChoice(row) == row.confirmed /\ row.confidence > 0

Protected(row) == row.source = "manual" \/ row.confirmed

(* Faulty variant: the higher confidence wins. *)
AssignBest(row, order) ==
    IF row.confidence >= order.confidence \/ Protected(row) THEN row
    ELSE [source |-> order.source, confirmed |-> FALSE, confidence |-> order.confidence]

(* The row that AssignRepositoryTopic leaves for an order. *)
Assign(row, order) ==
    IF Protected(row) /\ order.source # "manual" THEN row
    ELSE [source |-> order.source, confirmed |-> order.source = "manual", confidence |-> order.confidence]

(* GetTopicBySlug finds the topic and the transaction commits. *)
Carry(order) ==
    assigned' = IF order.slug \in topics
                THEN [assigned EXCEPT ![order.repo][order.slug] = Assign(@, order)]
                ELSE assigned

ManualOrder(r, s, confidence) == [repo |-> r, slug |-> s, source |-> "manual", confidence |-> confidence]

(* 'topic assign', 'topic remove' and the same forms of the web pages: a   *)
(* removal is kept as a manual assignment of confidence zero.              *)
AssignByHand(r, s) ==
    /\ s \in topics
    /\ \E confidence \in {0, 100} : Carry(ManualOrder(r, s, confidence))
    /\ UNCHANGED <<topics, text, task, analysis>>

(* Apply: one assignment for each match, in some order. *)
AutoOrder(r, match) ==
    [repo |-> r, slug |-> match.slug, source |-> "auto", confidence |-> match.confidence]

AutoOrders(r, words, labels) ==
    {AutoOrder(r, match) : match \in {m \in Infer(words, labels) : m.slug \in Slugs}}

(* Discover and ReclassifyTopics first make sure of the configured topics. *)
Ensure(p) ==
    /\ task[p].pc = "idle"
    /\ task' = [task EXCEPT ![p] = [NoTask EXCEPT !.pc = "ensure", !.missing = Configured]]
    /\ UNCHANGED <<topics, text, assigned, analysis>>

(* UpsertTopic; an error ends the command. *)
EnsureTopic(p) ==
    /\ task[p].pc = "ensure"
    /\ \E s \in task[p].missing :
          \/ /\ topics' = topics \cup {s}
             /\ task' = [task EXCEPT ![p].missing = @ \ {s},
                                     ![p].pc = IF task[p].missing = {s} THEN "read" ELSE @]
          \/ /\ task' = [task EXCEPT ![p] = NoTask]
             /\ UNCHANGED topics
    /\ UNCHANGED <<text, assigned, analysis>>

Working(p, orders) ==
    task' = [task EXCEPT ![p] = IF orders = <<>> THEN NoTask
                                ELSE [NoTask EXCEPT !.pc = "assign", !.orders = orders]]

(* A search or board candidate, with the metadata and labels of GitHub. *)
ClassifyCandidate(p, r, labels) ==
    /\ task[p].pc = "read"
    /\ \E words \in Texts :
          /\ text' = [text EXCEPT ![r] = words]
          /\ Working(p, SetToSeq(AutoOrders(r, words, labels)))
    /\ UNCHANGED <<topics, assigned, analysis>>

Priority(source) ==
    CASE source = "manual" -> 4 [] source = "github" -> 3 [] source = "imported" -> 2 [] OTHER -> 1

(* Candidates of other sources order the labels they carry; of two for the *)
(* same category the first stands unless the second has a higher priority. *)
Seen(orders) ==
    IF Len(orders) = 2 /\ Priority(orders[2].source) <= Priority(orders[1].source)
    THEN <<orders[1]>> ELSE orders

LabelOrder(r, s, source) == [repo |-> r, slug |-> s, source |-> source, confidence |-> 100]

AssignCandidates(p, r, s) ==
    /\ task[p].pc = "read"
    /\ \E first, second \in {"imported", "auto"} :
          \E orders \in {<<LabelOrder(r, s, first)>>,
                         <<LabelOrder(r, s, first), LabelOrder(r, s, second)>>} :
             Working(p, Seen(orders))
    /\ UNCHANGED <<topics, text, assigned, analysis>>

(* The saved labels that ReclassifyTopics takes as evidence. *)
Evidence(r) == {s \in Slugs : assigned[r][s].source = "github" /\ assigned[r][s].confidence > 0}

(* ReclassifyTopics works from what it read before the first assignment. *)
Reclassify(p) ==
    /\ task[p].pc = "read"
    /\ Working(p, SetToSeq(UNION {AutoOrders(r, text[r], Evidence(r)) : r \in Projects}))
    /\ UNCHANGED <<topics, text, assigned, analysis>>

(* The next assignment; one that fails ends the task. *)
NextAssignment(p) ==
    /\ task[p].pc = "assign"
    /\ \/ Carry(Head(task[p].orders)) /\ Working(p, Tail(task[p].orders))
       \/ task' = [task EXCEPT ![p] = NoTask] /\ UNCHANGED assigned
    /\ UNCHANGED <<topics, text, analysis>>

(***************************************************************************)
(* Analyses.                                                               *)
(***************************************************************************)
(* ImportAnalysis finds the repository by name, then writes. *)
FindAnalysed(p, r) ==
    /\ task[p].pc = "idle"
    /\ task' = [task EXCEPT ![p] = [NoTask EXCEPT !.pc = "summary", !.repo = r]]
    /\ UNCHANGED <<topics, text, assigned, analysis>>

Rewritten(r, batch) == [revision |-> analysis[r].revision + 1, batch |-> batch]

PutAnalysis(p) ==
    LET r == task[p].repo
    IN  /\ task[p].pc = "summary"
        /\ analysis[r].revision < MaxRevision
        /\ analysis' = [analysis EXCEPT ![r] = Rewritten(r, FALSE)]
        /\ task' = [task EXCEPT ![p] = NoTask]
        /\ UNCHANGED <<topics, text, assigned>>

(* Faulty variant: a batch replaces what is there. *)
FillsAny(r) == TRUE

Fills(r) == analysis[r].revision = 0

(* ImportRepositoryAnalyses: one transaction, none of it if an entry is    *)
(* not acceptable; it fills what is empty and skips the rest.              *)
ImportBatch(entries) ==
    /\ analysis' = [r \in Projects |-> IF r \in entries /\ Fills(r) THEN Rewritten(r, TRUE) ELSE analysis[r]]
    /\ UNCHANGED <<topics, text, assigned, task>>

CatalogueNext ==
    \/ \E r \in Projects, s \in Slugs : AssignByHand(r, s)
    \/ \E p \in Writers :
          \/ Ensure(p) \/ EnsureTopic(p) \/ Reclassify(p) \/ NextAssignment(p) \/ PutAnalysis(p)
          \/ \E r \in Projects : \/ \E labels \in Labels : ClassifyCandidate(p, r, labels)
                                 \/ \E s \in Slugs : AssignCandidates(p, r, s)
                                 \/ FindAnalysed(p, r)
    \/ \E entries \in SUBSET Projects \ {{}} : ImportBatch(entries)

CatalogueSpec == CatalogueInit /\ [][CatalogueNext]_catalogueVars

(***************************************************************************)
(* Properties.                                                             *)
(***************************************************************************)
(* What a person decided about a category stands until a person decides    *)
(* otherwise, whatever runs began before or after the decision: neither a  *)
(* classification from older inputs nor an import brings back a removed    *)
(* category or takes away a chosen one (AssignRepositoryTopic).            *)
DecisionsStand ==
    [][\A r \in Projects, s \in Slugs :
          assigned[r][s].source = "manual" =>
             \/ assigned'[r][s] = assigned[r][s]
             \/ /\ \A p \in Writers : task'[p] = task[p]
                /\ assigned'[r][s].source = "manual"]_catalogueVars

(* What a dry run of ReclassifyTopics counts as a change.                  *)
DryRunCounts(r, match) ==
    LET row == assigned[r][match.slug]
    IN  ~Protected(row) /\ (row.source # "auto" \/ row.confidence # match.confidence)

(* A dry run foretells the formal run: were that to follow at once, it     *)
(* would change exactly the rows the dry run counts, for every saved       *)
(* metadata and every mix of earlier decisions and imports.                *)
DryRunForetells ==
    \A r \in Projects : \A match \in Infer(text[r], Evidence(r)) :
       match.slug \in Configured =>
          (DryRunCounts(r, match) <=> Assign(assigned[r][match.slug], AutoOrder(r, match)) # assigned[r][match.slug])

(* A saved analysis is only ever replaced by an import of its own, which   *)
(* counts one revision; a batch leaves alone what any writer has filled    *)
(* (ImportRepositoryAnalyses; "does not replace an existing summary").     *)
AnalysesKept ==
    [][\A r \in Projects :
          analysis'[r] # analysis[r] =>
             /\ analysis'[r].revision = analysis[r].revision + 1
             /\ analysis'[r].batch => analysis[r].revision = 0]_catalogueVars
=============================================================================
