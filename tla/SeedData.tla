------------------------------- MODULE SeedData -------------------------------
(* The demonstration set (scripts/seed/data.ts): who and what it holds.      *)
(* Texts, prices, categories and skills are left out; what ties one record   *)
(* to another is kept as it stands. Ages are minutes before the script       *)
(* started, and an order is known by its place in ORDERS \o HISTORY.         *)
EXTENDS Integers, Sequences

CONSTANT Null

Hour == 60
Day  == 24 * Hour

(***************************************************************************)
(* Users: the key, whether they take orders and whether they have a picture *)
(***************************************************************************)
SeedUser(key, performer, avatar) == [key |-> key, performer |-> performer, avatar |-> avatar]

Performers == <<
    SeedUser("alina", TRUE, TRUE), SeedUser("maxim", TRUE, TRUE), SeedUser("dmitry", TRUE, TRUE),
    SeedUser("katya", TRUE, TRUE), SeedUser("olga", TRUE, FALSE), SeedUser("igor", TRUE, FALSE),
    SeedUser("timur", TRUE, TRUE), SeedUser("nastya", TRUE, TRUE)>>

Customers == <<
    SeedUser("sergey", FALSE, TRUE), SeedUser("marina", FALSE, TRUE),
    SeedUser("artem", FALSE, TRUE), SeedUser("vika", TRUE, TRUE)>>

OnsitePerformers == <<
    SeedUser("ruslan", TRUE, TRUE), SeedUser("svetlana", TRUE, TRUE), SeedUser("nikolay", TRUE, TRUE),
    SeedUser("anna", TRUE, TRUE), SeedUser("elena", TRUE, TRUE), SeedUser("kirill", TRUE, FALSE)>>

Experienced == <<
    SeedUser("irina", TRUE, TRUE), SeedUser("roman", TRUE, TRUE), SeedUser("denis", TRUE, TRUE),
    SeedUser("polina", TRUE, TRUE), SeedUser("andrey", TRUE, TRUE), SeedUser("oleg", TRUE, TRUE)>>

NearlyEmpty == <<SeedUser("newbie", FALSE, FALSE), SeedUser("pavel", FALSE, FALSE)>>

USERS == Performers \o Customers \o OnsitePerformers \o Experienced \o NearlyEmpty

(***************************************************************************)
(* Projects: the owner, the pictures, who liked and who looked              *)
(***************************************************************************)
SeedPortfolio(owner, images, likedBy, viewedBy) ==
    [owner |-> owner, images |-> images, likedBy |-> likedBy, viewedBy |-> viewedBy]

PORTFOLIOS == <<
    SeedPortfolio("alina", 3, {"maxim", "sergey", "vika", "katya"},
                  {"maxim", "sergey", "vika", "katya", "artem", "marina"}),
    SeedPortfolio("alina", 2, {"marina"}, {"marina", "sergey"}),
    SeedPortfolio("alina", 1, {}, {}),
    SeedPortfolio("alina", 5, {"vika", "timur"}, {"vika", "timur", "olga"}),
    SeedPortfolio("maxim", 2, {"alina", "sergey"}, {"alina", "sergey", "artem"}),
    SeedPortfolio("maxim", 2, {}, {}),
    SeedPortfolio("dmitry", 1, {}, {"artem"}),
    SeedPortfolio("katya", 2, {"alina"}, {"alina", "vika"}),
    SeedPortfolio("timur", 2, {"marina", "vika", "alina"}, {"marina", "vika", "alina", "sergey"}),
    SeedPortfolio("vika", 3, {"alina", "katya", "marina"}, {"alina", "katya", "marina", "sergey"}),
    SeedPortfolio("vika", 2, {"timur"}, {"timur", "olga"}),
    SeedPortfolio("sergey", 3, {"maxim"}, {"maxim", "alina", "artem"}),
    SeedPortfolio("sergey", 1, {}, {}),
    SeedPortfolio("artem", 2, {}, {"alina"}),
    SeedPortfolio("olga", 1, {}, {})>>

(***************************************************************************)
(* Orders. A review is its rating and whether it is answered; rating 0 is   *)
(* no review.                                                               *)
(***************************************************************************)
Review(rating, reply) == [rating |-> rating, reply |-> reply]
NoReview == Review(0, FALSE)

SeedOrder(owner, age) ==
    [owner |-> owner, age |-> age, state |-> "active", onsite |-> FALSE,
     responses |-> <<>>,                     \* pairs of performer and outcome
     cancel |-> [by |-> Null, age |-> 0, outcome |-> Null],
     doneAge |-> 0,                          \* completedDaysAgo; 0: not given
     byCustomer |-> NoReview, byPerformer |-> NoReview, history |-> Null]

Onsite(o)           == [o EXCEPT !.onsite = TRUE]
Answered(o, rs)     == [o EXCEPT !.responses = rs]
Unanswered(o, from) == Answered(o, <<<<from, Null>>>>)
TakenBy(o, from)      == Answered(o, <<<<from, "accepted">>>>)
As(o, state)        == [o EXCEPT !.state = state]
CancelBy(o, by, age, outcome) == [o EXCEPT !.cancel = [by |-> by, age |-> age, outcome |-> outcome]]
DoneBy(o, from, byCustomer, byPerformer) ==
    [As(TakenBy(o, from), "completed") EXCEPT !.byCustomer = byCustomer, !.byPerformer = byPerformer]

OnsiteOrders == <<
    Onsite(Unanswered(SeedOrder("marina", 72), "ruslan")),
    Onsite(SeedOrder("marina", 864)),
    Onsite(Unanswered(SeedOrder("sergey", 1152), "nikolay")),
    Onsite(SeedOrder("artem", 1728)),
    Onsite(Unanswered(SeedOrder("vika", 2 * Day), "elena")),
    Onsite(SeedOrder("pavel", 288)),
    Onsite(SeedOrder("sergey", 432))>>

FirstPage == <<
    Answered(SeedOrder("marina", 144), <<<<"maxim", Null>>, <<"alina", Null>>>>),
    SeedOrder("sergey", 576),
    Answered(SeedOrder("artem", Day), <<<<"dmitry", "pending">>>>),
    Unanswered(SeedOrder("vika", 36 * Hour), "olga"),
    Answered(SeedOrder("sergey", 2 * Day), <<<<"alina", Null>>, <<"vika", "rejected">>>>),
    SeedOrder("marina", 3 * Day),
    Unanswered(SeedOrder("artem", 4 * Day), "nastya")>>

SecondPage == <<
    Unanswered(SeedOrder("sergey", 5 * Day), "igor"),
    SeedOrder("vika", 6 * Day),
    SeedOrder("marina", 8 * Day),
    SeedOrder("pavel", 10 * Day),
    SeedOrder("sergey", 12 * Day),
    Answered(SeedOrder("artem", 16 * Day), <<<<"alina", "pending">>>>),
    SeedOrder("vika", 22 * Day)>>

AtWork == <<
    CancelBy(TakenBy(SeedOrder("sergey", 9 * Day), "olga"), "owner", 5 * Hour, "pending"),
    CancelBy(TakenBy(SeedOrder("artem", 7 * Day), "dmitry"), "performer", 80 * Hour, "pending"),
    CancelBy(As(TakenBy(SeedOrder("marina", 12 * Day), "vika"), "cancelled"), "performer", 150 * Hour, "accepted"),
    DoneBy(SeedOrder("marina", 20 * Day), "vika", Review(5, FALSE), Review(5, FALSE)),
    DoneBy(SeedOrder("sergey", 45 * Day), "maxim", Review(4, TRUE), Review(5, FALSE))>>

Reviewed == <<
    Onsite(DoneBy(SeedOrder("marina", 90 * Day), "ruslan", Review(5, FALSE), Review(5, FALSE))),
    Onsite(DoneBy(SeedOrder("pavel", 60 * Day), "ruslan", Review(5, FALSE), Review(4, FALSE))),
    Onsite(DoneBy(SeedOrder("sergey", 40 * Day), "ruslan", Review(4, TRUE), NoReview)),
    Onsite(DoneBy(SeedOrder("marina", 70 * Day), "svetlana", Review(5, FALSE), Review(5, FALSE))),
    Onsite(DoneBy(SeedOrder("pavel", 35 * Day), "svetlana", Review(2, TRUE), NoReview)),
    Onsite(DoneBy(SeedOrder("sergey", 50 * Day), "nikolay", Review(5, FALSE), Review(5, FALSE))),
    Onsite(DoneBy(SeedOrder("artem", 100 * Day), "anna", Review(5, FALSE), Review(5, FALSE))),
    DoneBy(SeedOrder("sergey", 120 * Day), "alina", Review(5, TRUE), Review(5, FALSE))>>

JustDone == <<
    [Onsite(DoneBy(SeedOrder("marina", 4 * Day), "ruslan", NoReview, NoReview)) EXCEPT !.doneAge = Day],
    [Onsite(DoneBy(SeedOrder("artem", 6 * Day), "nikolay", Review(5, FALSE), NoReview))
        EXCEPT !.doneAge = 2 * Day]>>

Unlisted == <<
    As(SeedOrder("sergey", Day), "draft"),
    As(SeedOrder("marina", 2 * Day), "draft"),
    As(SeedOrder("sergey", 60 * Day), "archived"),
    Answered(As(SeedOrder("artem", 6 * Day), "cancelled"), <<<<"dmitry", "pending">>>>)>>

ORDERS == OnsiteOrders \o FirstPage \o SecondPage \o AtWork \o Reviewed \o JustDone \o Unlisted

(***************************************************************************)
(* The deals of the experienced performers                                 *)
(***************************************************************************)
HISTORY_OWNERS == <<"sergey", "marina", "artem", "pavel">>

\* i counts from 0; the completed ones are spread evenly over two years.
history(performer, onsite, completed, inProgress, ratings) ==
    LET Past(i) == 20 + (1400 * (completed - i) + completed) \div (2 * completed)
        Nth(i)  == LET done == i < completed
                       old  == SeedOrder(HISTORY_OWNERS[(i % 4) + 1],
                                         Day * (IF done THEN Past(i) ELSE 1 + i - completed))
                       mark == IF done THEN ratings[(i % Len(ratings)) + 1] ELSE 0
                   IN  [old EXCEPT !.onsite  = onsite,
                                   !.state   = IF done THEN "completed" ELSE "active",
                                   !.byCustomer = Review(mark, FALSE),
                                   !.history = performer]
    IN  [n \in 1..(completed + inProgress) |-> Nth(n - 1)]

HISTORY ==
    history("irina", FALSE, 28, 1, <<5, 5, 5, 0, 5, 4, 5, 5, 0, 5>>) \o
    history("roman", FALSE, 22, 0, <<5, 5, 4, 0, 5>>) \o
    history("denis", FALSE, 12, 0, <<5, 4, 5, 0, 5>>) \o
    history("polina", FALSE, 9, 0, <<5, 5, 0, 4, 5>>) \o
    history("andrey", FALSE, 45, 3, <<5, 5, 4, 5, 0>>) \o
    history("oleg", TRUE, 18, 2, <<5, 4, 5, 5, 0>>)

(***************************************************************************)
(* Suggested orders and plain dialogs                                      *)
(***************************************************************************)
SUGGESTS == <<
    [from |-> "marina", to |-> "katya", order |-> 17, outcome |-> "pending",  age |-> 20 * Hour],
    [from |-> "sergey", to |-> "maxim", order |-> 9,  outcome |-> "pending",  age |-> 3 * Hour],
    [from |-> "vika",   to |-> "timur", order |-> 16, outcome |-> "rejected", age |-> 50 * Hour]>>

\* The messages as pairs of the sender and the age.
DIALOGS == <<
    [between |-> <<"sergey", "alina">>, unread |-> TRUE,
     messages |-> <<<<"sergey", 3000>>, <<"alina", 2990>>, <<"sergey", 2980>>,
                    <<"alina", 2900>>, <<"sergey", 2890>>, <<"sergey", 60>>>>],
    [between |-> <<"artem", "maxim">>, unread |-> FALSE,
     messages |-> <<<<"artem", 400>>, <<"maxim", 380>>, <<"artem", 370>>>>],
    [between |-> <<"vika", "olga">>, unread |-> FALSE,
     messages |-> <<<<"olga", 1500>>, <<"vika", 1400>>, <<"olga", 1380>>>>]>>
=============================================================================
