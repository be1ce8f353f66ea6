------------------------------ MODULE SeedRows ------------------------------
(***************************************************************************)
(* The rows of packages/db/src/seed.ts and the order in which main()       *)
(* upserts them.  A row is <<table, id, part>>; ids are the seed's without *)
(* their prefix.                                                           *)
(*                                                                         *)
(* Abstracted: the columns that do not say how rows belong together.       *)
(***************************************************************************)
EXTENDS Integers, Sequences, SequencesExt

Row(table, id) == <<table, id, "">>

\* A row, the rows it needs, and the value of its unique key.
Line(row, refs, key) == [row |-> row, refs |-> refs, unique |-> key]

Users ==
    <<"seeker-1", "seeker-2", "seeker-3", "seeker-4",
      "provider-1", "provider-2", "provider-3", "provider-4">>

\* The category and its parent.
Categories ==
    << <<"academic", "">>, <<"thesis-review", "academic">>, <<"paper-prep", "academic">>,
       <<"programming", "">>, <<"web-dev", "programming">>, <<"mobile-dev", "programming">>,
       <<"business", "">>, <<"immigration", "">>,
       <<"design", "">>, <<"graphic-design", "design">>, <<"legal", "">>, <<"health", "">> >>

\* The skill and its category.
Skills ==
    << <<"research-method", "academic">>, <<"academic-editing", "academic">>,
       <<"python", "programming">>, <<"javascript", "web-dev">>, <<"react", "web-dev">>,
       <<"ios", "mobile-dev">>, <<"android", "mobile-dev">>,
       <<"resume", "business">>, <<"interview-coach", "business">>,
       <<"visa-consult", "immigration">>, <<"ui-design", "graphic-design">>,
       <<"contract-review", "legal">> >>

\* A request's owner, status, category and skills.
OpenRequests ==
    << <<"thesis-review", "seeker-1", "PUBLISHED", "thesis-review", <<"research-method">> >>,
       <<"resume-phd", "seeker-2", "PUBLISHED", "business", <<"resume">> >>,
       <<"python-consult", "seeker-3", "PUBLISHED", "programming", <<"python">> >>,
       <<"interview-practice", "seeker-4", "PUBLISHED", "business", <<"interview-coach">> >>,
       <<"thesis-literature", "seeker-1", "PUBLISHED", "thesis-review", <<"academic-editing">> >>,
       <<"visa-consult", "seeker-2", "PUBLISHED", "immigration", <<"visa-consult">> >>,
       <<"ui-review", "seeker-3", "PUBLISHED", "graphic-design", <<"ui-design">> >> >>

OtherRequests ==
    << <<"web-mentor", "seeker-4", "OFFER_SELECTED", "web-dev", <<"javascript", "react">> >>,
       <<"contract-review", "seeker-1", "OFFER_SELECTED", "legal", <<"contract-review">> >>,
       <<"business-plan", "seeker-2", "CLOSED", "business", <<>> >>,
       <<"mobile-app-review", "seeker-3", "EXPIRED", "mobile-dev", <<"android">> >>,
       <<"health-consult", "seeker-4", "EXPIRED", "health", <<>> >>,
       <<"removed-example", "seeker-1", "REMOVED", "design", <<>> >>,
       <<"draft-migration", "seeker-2", "DRAFT", "immigration", <<>> >>,
       <<"draft-thesis-stats", "seeker-3", "DRAFT", "academic", <<>> >> >>

Requests == OpenRequests \o OtherRequests

\* Those that keep their category from being switched off.
ActiveRequests ==
    {Row("request", r[1]) : r \in {q \in Range(Requests) :
        q[3] \in {"DRAFT", "PUBLISHED", "OFFER_SELECTED"}}}

\* An offer's request, provider and status.
DecidedOffers ==
    << <<"web-mentor-1", "web-mentor", "provider-2", "SELECTED">>,
       <<"web-mentor-2", "web-mentor", "provider-1", "REJECTED">>,
       <<"web-mentor-3", "web-mentor", "provider-4", "REJECTED">>,
       <<"contract-1", "contract-review", "provider-3", "SELECTED">>,
       <<"contract-2", "contract-review", "provider-1", "REJECTED">> >>

OtherOffers ==
    << <<"thesis-review-1", "thesis-review", "provider-1", "PENDING">>,
       <<"thesis-review-2", "thesis-review", "provider-4", "PENDING">>,
       <<"resume-phd-1", "resume-phd", "provider-3", "PENDING">>,
       <<"resume-phd-2", "resume-phd", "provider-2", "PENDING">>,
       <<"python-consult-1", "python-consult", "provider-2", "PENDING">>,
       <<"python-consult-2", "python-consult", "provider-1", "PENDING">>,
       <<"interview-practice-1", "interview-practice", "provider-3", "PENDING">>,
       <<"thesis-literature-1", "thesis-literature", "provider-1", "PENDING">>,
       <<"visa-consult-1", "visa-consult", "provider-3", "PENDING">>,
       <<"visa-consult-2", "visa-consult", "provider-4", "PENDING">>,
       <<"ui-review-1", "ui-review", "provider-2", "PENDING">>,
       <<"ui-review-2", "ui-review", "provider-4", "PENDING">>,
       <<"business-plan-1", "business-plan", "provider-3", "PENDING">>,
       <<"mobile-app-review-1", "mobile-app-review", "provider-2", "EXPIRED">>,
       <<"health-consult-1", "health-consult", "provider-4", "EXPIRED">> >>

Offers == DecidedOffers \o OtherOffers

\* A conversation's request, offer, seeker and provider.
SeedConversations ==
    << <<"web-mentor", "web-mentor", "web-mentor-1", "seeker-4", "provider-2">>,
       <<"contract-review", "contract-review", "contract-1", "seeker-1", "provider-3">> >>

\* Who sends what is first, second and third in a conversation.
Senders(c) == << {}, {Row("user", c[4])}, {Row("user", c[5])} >>

\* A review's conversation, reviewer and reviewee.
Reviews ==
    << <<"web-mentor", "web-mentor", "seeker-4", "provider-2">>,
       <<"contract-review", "contract-review", "seeker-1", "provider-3">> >>

Products == <<"urgent-badge", "bump", "feature", "pro-monthly", "targeted-notify">>

-----------------------------------------------------------------------------
(* The order of main() *)

Lines(table, ids) ==
    [i \in DOMAIN ids |-> Line(Row(table, ids[i]), {}, Row(table, ids[i]))]

CategoryLine(c) ==
    Line(Row("category", c[1]), IF c[2] = "" THEN {} ELSE {Row("category", c[2])},
         Row("category", c[1]))

SkillLine(s) == Line(Row("skill", s[1]), {Row("category", s[2])}, Row("skill", s[1]))

RequestLines(r) ==
    << Line(Row("request", r[1]), {Row("user", r[2]), Row("category", r[4])},
            Row("request", r[1])) >>
    \o [i \in DOMAIN r[5] |->
        Line(<<"requestSkill", r[1], r[5][i]>>,
             {Row("request", r[1]), Row("skill", r[5][i])},
             <<"requestSkill", r[1], r[5][i]>>)]

OfferLine(o) ==
    Line(Row("offer", o[1]), {Row("request", o[2]), Row("user", o[3])},
         <<"offer", o[2], o[3]>>)

ConversationLines(c) ==
    << Line(Row("conversation", c[1]),
            {Row("request", c[2]), Row("offer", c[3]), Row("user", c[4]), Row("user", c[5])},
            Row("conversation", c[3])) >>
    \o [i \in 1 .. 3 |->
        Line(<<"message", c[1], <<"1", "2", "3">>[i]>>,
             {Row("conversation", c[1])} \cup Senders(c)[i],
             <<"message", c[1], <<"1", "2", "3">>[i]>>)]

ReviewLine(r) ==
    Line(Row("review", r[1]),
         {Row("conversation", r[2]), Row("user", r[3]), Row("user", r[4])},
         <<"review", r[2], r[3]>>)

Each(Op(_), data) == [i \in DOMAIN data |-> Op(data[i])]

Plan ==
    Lines("user", Users)
    \o Each(CategoryLine, Categories)
    \o Each(SkillLine, Skills)
    \o FlattenSeq(Each(RequestLines, Requests))
    \o Each(OfferLine, Offers)
    \o FlattenSeq(Each(ConversationLines, SeedConversations))
    \o Each(ReviewLine, Reviews)
    \o Lines("product", Products)

-----------------------------------------------------------------------------
\* What the market's modules promise of requests, offers and conversations.
MarketWhole ==
    /\ \A r \in Range(Requests) : \A o \in Range(Offers) :
        o[2] = r[1] =>
            /\ o[3] # r[2]
            /\ (o[4] = "SELECTED") => (r[3] = "OFFER_SELECTED")
            /\ r[3] = "OFFER_SELECTED" => o[4] \in {"SELECTED", "REJECTED"}
            /\ (o[4] = "SELECTED") <=>
                \E c \in Range(SeedConversations) :
                    /\ c[2] = r[1] /\ c[3] = o[1]
                    /\ c[4] = r[2] /\ c[5] = o[3]
    /\ \A r \in Range(Requests) :
        r[3] = "OFFER_SELECTED" =>
            \E o \in Range(Offers) : o[2] = r[1] /\ o[4] = "SELECTED"
    /\ \A c \in Range(SeedConversations), v \in Range(Reviews) :
        v[2] = c[1] => {v[3], v[4]} = {c[4], c[5]}
=============================================================================
