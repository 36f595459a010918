------------------------------ MODULE VkRouting ------------------------------
(***************************************************************************)
(* Which handler of the VK bot answers a message.  Handlers are registered *)
(* in labelers, bots/vk/bot.py loads the labelers one after another, and   *)
(* the first handler whose rules match the text and the dialogue state of  *)
(* the sender takes the message; no other handler sees it.                 *)
(***************************************************************************)
EXTENDS Naturals, Sequences

(* Classes of message texts.  Two texts are in one class when the tuples   *)
(* and patterns of core/commands.py cannot tell them apart: "hash" stands  *)
(* for "#5", "details" for "Подробнее #5", "topic" for "Тема: x", "caps"   *)
(* for "ОТМЕНА" (equal to a cancel command only in lower case), "more" for *)
(* "продолжить", "long" and "short" for texts no pattern matches.          *)
Texts ==
  {"faq", "vopros", "topic", "number", "hash", "search",
   "kb", "kb_dept", "kb_search", "events", "register",
   "start", "cancel", "caps", "my_tickets", "details", "reply", "section",
   "create", "anonymous", "no_dept", "stay", "reveal", "partnership", "more",
   "admin", "menu", "admin_tickets", "view", "history", "reply_start",
   "complete", "in_progress", "status",
   "report", "today", "by_date", "by_period", "date", "period",
   "next", "prev", "long", "short"}

(* The states of the bot's dialogues; "none" is no state.                  *)
Waiting ==
  {"department", "description", "identity", "proposal", "reply_text",
   "report_type", "report_date", "report_period"}
Places == Waiting \cup {"none"}

On(texts, handler) == [handler |-> handler, texts |-> texts, at |-> Places]
In(place, texts, handler) ==
  [handler |-> handler, texts |-> texts, at |-> {place}]

FaqRules ==
  << On({"faq"}, "faq"),
     On({"vopros", "topic"}, "faq_department"),
     On({"number", "hash"}, "faq_node"),
     On({"search"}, "faq_search") >>

KnowledgeRules ==
  << On({"kb"}, "knowledge_base"),
     On({"kb_dept", "topic"}, "knowledge_department"),
     On({"kb", "kb_search"}, "knowledge_search") >>

EventRules == << On({"events"}, "events"), On({"register"}, "register_event") >>

StudentRules ==
  << On({"start"}, "start"),
     On({"cancel"}, "cancel"),
     On({"my_tickets"}, "my_tickets"),
     On({"details", "hash"}, "ticket_details"),
     On({"number"}, "ticket_number"),
     On({"reply"}, "ticket_reply"),
     On({"section"}, "section"),
     On({"create"}, "question"),
     In("department", Texts, "department_choice"),
     On({"anonymous"}, "anonymous"),
     In("description", Texts, "description"),
     In("identity", Texts, "identity_choice"),
     On({"partnership"}, "partnership"),
     In("proposal", Texts, "proposal") >>

AdminRules ==
  << On({"admin"}, "admin_panel"),
     On({"menu"}, "regular_menu"),
     On({"admin_tickets"}, "admin_tickets"),
     On({"view", "details"}, "ticket_view"),
     On({"history"}, "ticket_history"),
     On({"reply_start"}, "reply_start"),
     In("reply_text", Texts, "reply_text"),
     On({"complete"}, "complete"),
     On({"in_progress"}, "in_progress"),
     On({"status"}, "status") >>

ReportRules ==
  << On({"report"}, "report_menu"),
     On({"today"}, "report_today"),
     On({"by_date"}, "report_by_date"),
     In("report_date", {"date"}, "date_input"),
     On({"by_period"}, "report_by_period"),
     In("report_period", {"period"}, "period_input"),
     In("report_date", Texts, "date_fallback"),
     In("report_period", Texts, "period_fallback") >>

PageRules == << On({"next"}, "next_page"), On({"prev"}, "prev_page") >>

(* The labelers in the order bots/vk/bot.py loads them; the handler of     *)
(* last resort ignores the message.                                        *)
Rules ==
  FaqRules \o KnowledgeRules \o EventRules \o StudentRules \o AdminRules
    \o ReportRules \o PageRules \o << On(Texts, "fallback") >>

Matches(i, text, place) == text \in Rules[i].texts /\ place \in Rules[i].at

(* The first handler that matches takes the message.                       *)
Routes ==
  [text \in Texts, place \in Places |->
     Rules[CHOOSE i \in DOMAIN Rules :
              /\ Matches(i, text, place)
              /\ \A j \in 1..(i - 1) : ~Matches(j, text, place)].handler]
Handler(text, place) == Routes[text, place]
=============================================================================
