---------------------------------- MODULE Chat ----------------------------------
(***************************************************************************)
(* "Ask VALERI" (valeri_api/conversation, tools/catalog.py, api/chat.py).  *)
(* A post stores the user's message, classifies it, dispatches tools,      *)
(* stores the reply and commits all of it in one transaction; then it      *)
(* captures knowledge from the message in another one.  Between any two    *)
(* calls of the language model other posts commit, also posts of the same  *)
(* conversation (two tabs, a retried request), and nothing orders them:    *)
(* ids are drawn when a row is flushed, rows are seen when their           *)
(* transaction commits.  The one lock is that of the conversation's row,   *)
(* which a first message holds from the title it writes to its commit.     *)
(*                                                                         *)
(* Which customers a text names, and what of it reaches a prompt, is       *)
(* Masking's.  What the model picks is any choice.                         *)
(***************************************************************************)
EXTENDS Masking, FiniteSets

CONSTANTS
    Posts,           \* the requests that post a message
    Conversations,   \* app.conversation
    None,            \* the conversation of a request that has not posted yet
    Visible,         \* visible_customer_ids of the user of each post
    Texts,           \* what users write
    Window,          \* HISTORY_WINDOW
    Tools,           \* bound on the tools that the model may name
    MaxSteps         \* max_steps of the chat agent, as each post reads it in app.rule_config

ASSUME ChatAssumption ==
    /\ Texts \subseteq Seq(Words)
    /\ Visible \in [Posts -> SUBSET Ids]
    /\ Tools \subseteq STRING
    /\ Window \in Nat \ {0} /\ MaxSteps \in [Posts -> Nat]
    /\ 0 \notin Ids

VARIABLES
    messages,   \* app.message, committed
    nextId,     \* its sequence
    titles,     \* the post whose text is the title of a conversation, if it has one
    captures,   \* the captures that committed: of which post, and as which message's
    post        \* what each request is doing; log and writes are what its transaction adds to
                \* app.tool_call_log and to the tables of the tools

committed == <<messages, titles>>
vars == <<committed, nextId, captures, post>>

Idle == [pc |-> "idle", conv |-> None, words |-> <<>>, id |-> 0, titling |-> FALSE,
         context |-> {}, prompts |-> {}, kind |-> "none", steps |-> 0,
         calls |-> <<>>, log |-> {}, writes |-> {}]

------------------------------------------------------------------------------
(* What a post reads.                                                        *)

Name(c) == [i \in DOMAIN Customers[c] |->
              [kind |-> "word", stem |-> Customers[c][i], capital |-> TRUE, ends |-> FALSE]]
AllTexts == Texts \cup {<<>>} \cup {Name(c) : c \in Ids}
Named == [words \in AllTexts |-> LET found == Resolve(words)
                                 IN  [i \in 1 .. Len(found) |-> found[i].customer]]
Mentions(words) == {Named[words][i] : i \in 1 .. Len(Named[words])}
Masked == [words \in AllTexts |-> MaskText(words)]

\* The messages of the conversation that post p sees: the committed ones and its own.
Own(p) == [id |-> post[p].id, conv |-> post[p].conv, role |-> "user", post |-> p,
           words |-> post[p].words]
AnyConversation(p) == messages \cup {Own(p)}           \* mutant: of every conversation
Seen(p) == {m \in messages : m.conv = post[p].conv} \cup {Own(p)}

\* ORDER BY id DESC OFFSET skip LIMIT Window
Newest(p, skip) ==
    {m \in Seen(p) : Cardinality({n \in Seen(p) : n.id > m.id}) \in skip .. skip + Window - 1}

\* _masked_history skips the newest row, which it takes to be the message just stored.
History(p) == Newest(p, 1)

\* _focus_customer_id: the first visible customer of the newest message that names one.
Focus(p) ==
    LET visible(m) == {i \in 1 .. Len(Named[m.words]) : Named[m.words][i] \in Visible[p]}
        naming == {m \in Newest(p, 0) : visible(m) # {}}
        newest == CHOOSE m \in naming : \A n \in naming : n.id <= m.id
    IN  IF naming = {} THEN 0 ELSE Named[newest.words][Min(visible(newest))]

------------------------------------------------------------------------------
(* handle_message up to the classification.                                  *)

\* The message is flushed and has its id; whether the conversation has a title was read
\* before.
Store(p, c, words) ==
    /\ post[p].pc = "idle"
    /\ post' = [post EXCEPT ![p] = [Idle EXCEPT
                   !.pc = "stored", !.conv = c, !.words = words, !.id = nextId,
                   !.titling = (titles[c] = {})]]
    /\ nextId' = nextId + 1
    /\ UNCHANGED <<committed, captures>>

InFlight == {"classified", "looping", "replying"}
TitleLocked(c) == \E q \in Posts : post[q].conv = c /\ post[q].titling /\ post[q].pc \in InFlight

\* The title's UPDATE, which waits for the lock; then the history is read, everything is
\* masked, and the classification picks what to do.  A failed one means help.
Classify(p, kind) ==
    /\ post[p].pc = "stored"
    /\ post[p].titling => ~TitleLocked(post[p].conv)
    /\ LET texts == {post[p].words} \cup {m.words : m \in History(p)}
       IN  post' = [post EXCEPT ![p] = [@ EXCEPT
                      !.pc = IF kind = "analysis" THEN "looping"
                             ELSE IF kind = "reply" THEN "replying"
                             ELSE "classified",
                      !.kind = kind,
                      !.context = UNION {Mentions(t) : t \in texts},
                      !.prompts = {Masked[t] : t \in texts}]]
    /\ UNCHANGED <<committed, nextId, captures>>

------------------------------------------------------------------------------
(* dispatch                                                                  *)

ReadTools == {"query_metric", "compare_periods", "list_signals", "explain_signal",
              "get_customer_360", "get_client_knowledge"}
WriteTools == {"create_task_draft", "propose_rule_change", "start_investigation"}
CustomerRequired == {"get_customer_360", "get_client_knowledge"}
ForOneCustomer == CustomerRequired \cup {"query_metric", "compare_periods", "create_task_draft"}

\* The customer that a call is about: two tools take no customer but a signal or nothing.
About(tool, ref) == IF tool \in {"list_signals", "explain_signal"} THEN 0 ELSE ref.customer

\* The role or the input's schema may refuse a call before the tool runs; a customer out of
\* scope and a missing one are always refused, and so are figures of the whole company to a
\* representative.  A tool that runs may fail.
OutOfScope(p, customer) == customer # 0 /\ customer \notin Visible[p]
CompanyWide(p, tool, customer) ==
    tool \in {"query_metric", "compare_periods"} /\ customer = 0 /\ Visible[p] # Ids
Incomplete(tool, customer) ==
    customer = 0 /\ tool \in CustomerRequired \cup {"create_task_draft"}
Results(p, tool, customer) ==
    IF \/ tool \in ForOneCustomer /\ OutOfScope(p, customer)
       \/ Incomplete(tool, customer) \/ CompanyWide(p, tool, customer)
    THEN {"refused"}
    ELSE {"refused", "tool_error", "ok"}

\* What a call writes.  A proposal is stored first and applied afterwards, in force or
\* pending: if the application fails, the rule stays in the session, in force.
TaskDraft == {{"task", "decision"}}
RuleProposal == {{"pending"}, {"rule", "decision"}}
QueuedInvestigation == {{"investigation"}}
WrittenByFailure(tool) == IF tool = "propose_rule_change" THEN {{"rule"}, {}} ELSE {{}}
WrittenBySuccess(tool) ==
    CASE tool = "create_task_draft" -> TaskDraft
      [] tool = "propose_rule_change" -> RuleProposal
      [] tool = "start_investigation" -> QueuedInvestigation
      [] OTHER -> {{}}
Written(tool, result) ==
    CASE result = "ok" -> WrittenBySuccess(tool)
      [] result = "tool_error" -> WrittenByFailure(tool)
      [] OTHER -> {{}}

\* The customers that an output names: those of a metric's rows, of the open signals or of one
\* of them, the customer itself, and the other ends of its confirmed edges.  A representative
\* sees none but its own.  A customer that the metric does not declare is dropped from the call,
\* which is then about the whole company.
MetricRows(p, customer) ==
    IF customer = 0 \/ Visible[p] = Ids THEN SUBSET Visible[p] ELSE SUBSET {customer}
OpenSignals(p) == SUBSET Visible[p]
ExplainedSignal(p) == {{}} \cup {{c} : c \in Visible[p]}
Customer360(customer) == {{customer}}
ClientKnowledge(p, customer) == {{customer} \cup others : others \in SUBSET Visible[p]}
Shown(p, tool, customer) ==
    CASE tool = "query_metric" -> MetricRows(p, customer)
      [] tool = "list_signals" -> OpenSignals(p)
      [] tool = "explain_signal" -> ExplainedSignal(p)
      [] tool = "get_customer_360" -> Customer360(customer)
      [] tool = "get_client_knowledge" -> ClientKnowledge(p, customer)
      [] OTHER -> {{}}

\* dispatch never raises and logs every call, once; what a failed tool has written is kept.
\* The customers of an output get pseudonyms when it is masked.
Ran(q, tool, ref, written, shown) ==
    [q EXCEPT !.calls = Append(@, [customer |-> About(tool, ref), by |-> ref.by, shown |-> shown]),
              !.context = @ \cup shown,
              !.writes = @ \cup {[no |-> Len(q.calls) + 1, what |-> what] : what \in written}]
Forgetful(q, tool, ref, result, written, shown) ==     \* mutant: a failed call is not logged
    [Ran(q, tool, ref, written, shown) EXCEPT
        !.log = @ \cup {[no |-> Len(q.calls) + 1, tool |-> tool, ok |-> TRUE] :
                           good \in {result} \cap {"ok"}}]
Dispatched(q, tool, ref, result, written, shown) ==
    [Ran(q, tool, ref, written, shown) EXCEPT
        !.log = @ \cup {[no |-> Len(q.calls) + 1, tool |-> tool, ok |-> result = "ok"]}]

Dispatch(p, tool, ref, after) ==
    \E result \in Results(p, tool, About(tool, ref)) :
    \E written \in Written(tool, result),
       shown \in IF result = "ok" THEN Shown(p, tool, About(tool, ref)) ELSE {{}} :
        post' = [post EXCEPT ![p] = Dispatched(after, tool, ref, result, written, shown)]

\* The customer of the model's pseudonym, none if it made the pseudonym up, or any customer
\* at all if it wrote an id instead: the parameters are passed on.
References(p) ==
    [customer : post[p].context \cup {0}, by : {"pseudonym"}] \cup [customer : Ids, by : {"id"}]

\* One tool for a question or an instruction.  Without a customer, a tool that needs one
\* gets the customer in focus.
OneTool(p, tool, ref) ==
    /\ post[p].pc = "classified"
    /\ LET required == tool \in CustomerRequired /\ ref.customer = 0
           used == IF required THEN [customer |-> Focus(p), by |-> "focus"] ELSE ref
           after == [post[p] EXCEPT !.pc = "replying"]
       IN  IF required /\ used.customer = 0
           THEN post' = [post EXCEPT ![p] = after]
           ELSE Dispatch(p, tool, used, after)
    /\ UNCHANGED <<committed, nextId, captures>>

\* A turn of the agent's loop: a tool that writes is refused before it is dispatched, and a
\* metric that does not exist is.
AgentCall(p, tool, ref) ==
    /\ post[p].pc = "looping"
    /\ post[p].steps < MaxSteps[p]
    /\ LET after == [post[p] EXCEPT !.steps = @ + 1]
       IN  \/ tool \in (Tools \ ReadTools) \cup {"query_metric"} /\ post' = [post EXCEPT ![p] = after]
           \/ tool \in ReadTools /\ Dispatch(p, tool, ref, after)
    /\ UNCHANGED <<committed, nextId, captures>>

\* The model is done or fails, or the steps or the seconds are used up.
AgentEnds(p) ==
    /\ post[p].pc = "looping"
    /\ post' = [post EXCEPT ![p].pc = "replying"]
    /\ UNCHANGED <<committed, nextId, captures>>

------------------------------------------------------------------------------
(* The reply, the commit and the capture.                                    *)

Over(p) == [Idle EXCEPT !.pc = "done", !.conv = post[p].conv, !.id = post[p].id]
Reply(p, words) == [id |-> nextId, conv |-> post[p].conv, role |-> "assistant", post |-> p,
                    words |-> words]

\* _finish and commit.  The reply may name the customers of the context; without a tool, those
\* at risk and those that an unclear name may mean.
Finish(p, words) ==
    /\ post[p].pc = "replying"
    /\ messages' = messages \cup {Own(p), Reply(p, words)}
    /\ nextId' = nextId + 1
    /\ titles' = [titles EXCEPT ![post[p].conv] = IF post[p].titling THEN {p} ELSE @]
    /\ post' = [post EXCEPT ![p] = [Over(p) EXCEPT !.pc = "committed"]]
    /\ UNCHANGED captures
ReplyWords(p) ==
    {<<>>} \cup {Name(c) : c \in post[p].context}
           \cup {Name(c) : c \in IF post[p].kind # "analysis" /\ post[p].calls = <<>>
                                  THEN Visible[p] ELSE {}}

\* An exception that escapes: the driver's connection, a tool's SQL that aborts the
\* transaction (its log row cannot be written then), the death of the process.
Abort(p) ==
    /\ post[p].pc \in {"stored"} \cup InFlight
    /\ post' = [post EXCEPT ![p] = Over(p)]
    /\ UNCHANGED <<committed, nextId, captures>>

\* post_message reads back the newest user message of the conversation and captures what it
\* says, in a session of its own.
NewestRow(p) == {m \in messages : m.conv = post[p].conv}      \* mutant: of either role
UserRows(p) == {m \in messages : m.conv = post[p].conv /\ m.role = "user"}
Capture(p) ==
    /\ post[p].pc = "committed"
    /\ \E m \in UserRows(p) :
          /\ \A n \in UserRows(p) : n.id <= m.id
          /\ captures' = captures \cup {[post |-> p, message |-> m.id]}
    /\ post' = [post EXCEPT ![p] = Over(p)]
    /\ UNCHANGED <<committed, nextId>>

\* A capture that fails is swallowed; and if the process dies after the commit, the message
\* stays and nothing captures its knowledge later.
LoseCapture(p) ==
    /\ post[p].pc = "committed"
    /\ post' = [post EXCEPT ![p] = Over(p)]
    /\ UNCHANGED <<committed, nextId, captures>>

------------------------------------------------------------------------------

Init ==
    /\ messages = {} /\ nextId = 1
    /\ titles = [c \in Conversations |-> {}]
    /\ captures = {}
    /\ post = [p \in Posts |-> Idle]

Kinds == {"tool", "analysis", "reply"}
Agent(p) ==
    \/ \E tool \in Tools, ref \in References(p) : AgentCall(p, tool, ref)
    \/ AgentEnds(p)
Handle(p) ==
    \/ \E kind \in Kinds : Classify(p, kind)
    \/ \E tool \in Tools, ref \in References(p) : OneTool(p, tool, ref)
    \/ Agent(p)
    \/ \E words \in ReplyWords(p) : Finish(p, words)
    \/ Capture(p)

Next ==
    \E p \in Posts :
        \/ \E c \in Conversations, words \in Texts : Store(p, c, words)
        \/ Handle(p)
        \/ Abort(p)
        \/ LoseCapture(p)

Spec == Init /\ [][Next]_vars

------------------------------------------------------------------------------
(* Properties.                                                               *)

\* By a pseudonym or by the focus, a tool is only ever run about a customer that the
\* conversation named, in the message, in the history or in an earlier output of the same
\* question; never about one of another conversation, or of a pseudonym that the model made
\* up (service.py:272-293, 336-346).
CustomersWereNamed ==
    \A p \in Posts : \A i \in DOMAIN post[p].calls :
        LET call == post[p].calls[i]
        IN  call.customer # 0 /\ call.by # "id" =>
              \/ call.customer \in Mentions(post[p].words)
              \/ \E m \in messages :
                    m.conv = post[p].conv /\ call.customer \in Mentions(m.words)
              \/ \E j \in 1 .. i - 1 : call.customer \in post[p].calls[j].shown

\* What a tool has written is in the log of the calls, and was not written in an analysis; if
\* no decision records it, then it is an investigation or the log says that the call failed.
Decided(p, no) == [no |-> no, what |-> "decision"] \in post[p].writes
EffectsAreLogged ==
    \A p \in Posts : \A e \in post[p].writes : \E row \in post[p].log :
        /\ row.no = e.no
        /\ row.tool \in WriteTools /\ post[p].kind # "analysis"
        /\ e.what \in {"task", "rule"} /\ ~Decided(p, e.no) => ~row.ok

\* Knowledge is attributed to a user's message of the same conversation, which is the message
\* itself unless a later one of that conversation was committed meanwhile.
CaptureFollowsTheMessage ==
    \A k \in captures : \E m \in messages :
        /\ m.id = k.message /\ m.role = "user" /\ m.conv = post[k.post].conv
        /\ m.post # k.post => m.id > post[k.post].id

\* No capitalised word reaches a prompt but a lone one at the start of a sentence and the
\* acronyms: what resolution leaves behind, in the message or in the history, the redaction
\* catches (masking.py:112-114, 144-147).
OnlySentenceStartersSurvive ==
    \A p \in Posts : \A tokens \in post[p].prompts : \A i \in DOMAIN tokens :
        NameLike(tokens[i]) =>
            /\ StartsSentence(tokens, i)
            /\ i < Len(tokens) => ~NameLike(tokens[i + 1]) \/ tokens[i].ends
=============================================================================
