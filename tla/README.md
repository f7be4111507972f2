# byte-back: a TLA+ model of the marketplace

This directory models the server of a freelance marketplace (NestJS, MongoDB,
socket.io) and its two larger scripts. The database applies one query at a time;
a handler is a sequence of awaited queries, and any other handler may run between
two of them. Nothing is a transaction. What the code promises therefore rests on
conditional queries and on what a handler remembers across an `await`, and that
is what the modules are about.

## The system

| component | state it keeps | operations | what is hard | what makes it correct |
|---|---|---|---|---|
| orders and responses (`src/order`) | `orders`, `orderresponses`; the counters `response_count` and `user.orders_count` | create, update, archive, cancel, delete; respond, withdraw; assign, submit, review, cancel a deal | checks on a document as read, writes in a later query; a save of the changed fields only; counters kept beside the data; two deletes issued together; a stop between two queries | status and performer agree, a deal is never hidden or deleted, both parties are confirmed, an order ends once, counters count |
| deal cards (`src/chat/chat.gateway.ts`) | cards in `messages`: offer, response, delivery, cancellation proposal | accept, reject, finish, propose, force, delete | the card is read before the order moves and saved after; other cards are closed later still; the order moves and the process stops | the answer on a card agrees with what happened to the order; an order in review has a card to answer |
| chat messages (`chat.service.ts`) | `messages` | send, edit, delete, page, mark read, list dialogues, count unread | equal timestamps at a page boundary; events that come in another order than the writes; an edit of a message as read before | pages neither lose nor repeat a message; what was read stays read; the two counters of unread messages agree |
| presence (`chat.gateway.ts:73-106`) | socket.io rooms, `last_seen` | connect, disconnect | two tabs join before either counts; the offline event is sent after an await | one who left is shown offline at last |
| reviews (`src/review`) | `reviews`, rating fields of the profile | create, reply, publish by counterpart or timer, recalculate | insert, then look for the counterpart; aggregate, then write; a stop in between | two reviews of one order open together; every review opens at last; the rating is that of the published reviews |
| accounts and codes (`src/auth`) | the account's codes, attempt counters, locks, password | register, log in, verify, resend, reset | parallel guesses; the end of a lock | at most five wrong guesses per lock |
| portfolio and uploads (`src/portfolio`, `src/common/uploads.ts`) | projects, files on disk | create, update, delete | files are stored before the request is checked and removed after the document changed | no file of somebody else is removed; nothing is left behind but by a refusal, a failure or a stop |
| ranking (`src/ranking`) | none | score, newcomer quota | rounding, ties, prefixes | every prefix holds its quota while newcomers last; the order within each group is kept |
| users (`src/user`) | profile | edit, avatar, catalogue, candidates for an order | one query each | — |
| seed script (`scripts/seed`) | the demonstration set, found again by the domain of its e-mails | clear, seed | a stop between any two writes; real users who answered the set's orders | a whole run leaves the set once, in a state the site could have reached, and nothing of real users changed |
| ranking experiment (`scripts/ranking-experiment`) | performers and orders in work, in memory | place, complete and rate an order; list | completion and placement move the same counters in different places of a loop | no order is lost or counted twice |
| categories, mail, shared helpers, bootstrap | reference data, none | upsert at start, send | — | — |

Components call each other directly: the chat gateway calls `OrderService` when
a card is answered and `ReviewService` posts a service message through the
gateway. The order service writes one field of the user (`setOrdersCount`) and
reads one (`is_verified`); the catalogue and the recommendations hand their
candidates to the ranking service, which the experiment runs too. `PROJECT.json`
lists every component with its status and every hazard at its line.

## The modules

| module | what it models |
|---|---|
| `OrderDoc` | the order document and the pure functions and query conditions on it: `isListed`, `assignRefusal`, `normalizeLocation`, `SEEKING`, the feed's filter, the fields a save writes |
| `Order` | every handler of `OrderService` that changes an order's life cycle, publication, location, counters or responses, one action per query |
| `Deal` | the abstract life cycle of an order: posted once, agreed with one performer, handed in and sent back, completed or cancelled once |
| `Cards` | the deal cards of the chat gateway: sending, answering, forcing, closing and deleting them, composed with `Deal` |
| `Reviews` | `ReviewService`: creation, publication by the counterpart or by the timer, recalculation of the ratings, replies |
| `Accounts` | `AuthService`: guesses of a code, attempts and locks, letters with codes, login, change and reset of the password |
| `Dialogue` | `ChatService` and the events of the gateway: sending, editing, deleting, marking as read, pages of the history, the list of dialogues |
| `Presence` | connections of the chat gateway, the rooms and the two presence events |
| `Files` | `PortfolioService`, `setAvatar` and uploads for the chat over one store of files |
| `Ranking` | `ranking.math.ts`: factors, score, the order of two performers, the list with the quota of newcomers; pure operators |
| `Market` | `RankingService` and the simulation of the experiment over `Ranking`, with the catalogue's and the recommendations' filters |
| `SeedData`, `Seed` | the demonstration set, and the script that writes and removes it beside a site in use |
| `OrderProofs`, `CardsProofs`, `ReviewsProofs`, `AccountsProofs`, `ChatProofs` (`Dialogue` and `Presence`), `FilesProofs`, `ScriptsProofs` (`Market` with `Ranking`, and `Seed`) | the theorems about these |
| `Counting` | lemmas about the size of a set that several of the proofs need |
| `MCOrder`, `MCCards`, `MCReviews`, `MCAccounts`, `MCChat`, `MCFiles`, `MCMarket`, `MCSeed` | values of the constants for TLC, symmetry sets, and the scenes of each run |

`Order` is proved to implement `Deal`, and `Cards` is built on `Deal`: what the
gateway sees of an order is exactly what the order service is shown to promise.
`Market` runs `Ranking` on a population that its own orders change. `MCChat` puts
`Dialogue` and `Presence` side by side.

Where handlers are concurrent, `req[r]` is a handler in flight, with the query
it waits for (`pc`) and what it remembers across its awaits; a query together
with the checks on its result is one action. Definitions marked "mistake" are
plausible bugs; no specification uses them. Each is put in place of the
definition it spoils to see that a property notices.

### How `Order` corresponds to the code

* `orders` holds the fields of the documents, `stored` whether a document is
  not made yet, made in memory, stored, or deleted; a deleted document keeps
  its last fields so that properties can speak about it. `response_count` is
  apart from the other fields because only `$inc` writes it and no save of the
  document includes it.
* `req[r]` is a handler in flight: `pc` names the query it waits for, `snap`
  is the document it read, `edit` the document as it changed it, `count` the
  number it counted. The first query of a handler and the checks on its result
  are one action (`UpdateOrder`, `DeleteOrder`, `AssignPerformer`,
  `CreateOrderResponse`, `DeleteOrderResponse`); each later query is an action
  of its own (`PublishCheck`, `SaveOrder`, `CountOrders`, `SetOrdersCount`, ...).
* The transitions written as one conditional `findOneAndUpdate` (archive,
  cancel, cancel a deal, submit, review) are one action with the query's
  condition as the guard.
* A save writes the paths that differ from the document as read and keeps the
  others as they are stored now (`SaveChanges`); an edit of `draft` or
  `is_active` is written only while the order seeks a performer (`Saves`).
* `Promise.all` of two deletes is two actions in either order.
* `Crash` returns every handler to idle and keeps the database.

What is abstracted: a refused request writes nothing, so a refusal at the first
query is a request that never starts. `assertVerified` in `createOrder` is taken
together with the start of the handler: an address once confirmed stays
confirmed, so the order of the two does not matter. A `null` draft is a false
one. Mongoose compares `__v` on a save only for an array write that depends on
positions; no such write exists here. Accounts are never deleted. `cancelDeal`
and `assignPerformer` take the two ends of a dialogue from the chat gateway, who
are distinct users. Title, price, skills, dates and texts are left out, no rule
of the service reads them.

### How `Cards` corresponds to the code

* `cards[c]` is a message with a suggestion: its kind (`suggest`, `response`,
  `delivery`, `cancel`), its order, its two users and the answer. `overdue` are
  the proposals whose three days are over (`cancel-proposal.ts`).
* An answer (`updateSuggestStatus`) is four queries or more: the card is read
  (`AnswerCard`), the order is moved by the order service's conditional query or
  the answer is refused (`MoveOrder`), the answer is saved into the card as it
  was read (`SetStatus`, by id alone), and after an acceptance the other open
  cards of the order are found (`FindOthers`) and closed (`CloseOthers`).
* `finishOrder` moves the order and then inserts the card; `proposeCancel`
  checks the order, looks for an open proposal, inserts. `forceCancel` is an
  answer given by the author. `deleteMessage` reads the card and deletes by id.

What is abstracted: the order service may refuse an assignment at any time (for
an address, a draft, an archived order), as `Refused` allows. Drafts are not
told apart from active orders, and an order deleted under its cards is left
out; `Order` covers it. Events, service messages and the content of messages
are left out. `CardBound` keeps a free id for every handler on its way to insert.

### How `Reviews` corresponds to the code

* `window` of an order: not completed, open for reviews, or over
  (`windowCloses`); time passes by `Close`. `state` of a review: not written,
  hidden, published. The unique index makes a review a pair of an order and a role.
* `rated[u]` is the set of reviews that the ratings stored in the profile were
  computed from. The published reviews only grow, so two aggregations with the
  same count saw the same set; sums, rounding and the weighted score are left out.
* `create` is four stages: the checks (`Create`), the insert that the index may
  refuse (`Insert`), the search for the counterpart (`FindCounterpart`), and
  `publish`, which is one `updateMany` and then, for each person concerned, in
  parallel, an aggregate (`Aggregate`) and a write (`Write`). The timer is a
  handler that starts with `PublishDue`; two of its runs may overlap.
* `Stop` loses the handlers in flight; `MaxStops` bounds how often.

The text of a review, the lists, the summary and the service message are left out.

### How `Accounts` corresponds to the code

* One account; `attempts` and `lockedUntil` for each kind of code. `spendAttempt`
  is `Unlock` (an over lock is lifted), `Spend` (one atomic update counts the
  attempt and sets the lock) and `Clear` (a right code). The code is compared
  when the account is read, before all three (`VerifyUser`, `EnterResetCode`).
* Changes to the account are saves of the changed fields by id: `SaveVerified`,
  `SaveReset`, `SaveToken`, `SaveCode`, `Rehash`, `SavePassword`.
* `clock` counts ticks; the lock, the life of a reset code and the pause between
  letters are constants of any size. A handler takes the time when it starts and
  is in flight no longer than `Patience`, which is shorter than a lock: the code
  compares times it took at its start, and a handler that hung for an hour would
  set a lock that is over already. This is the one assumption about time.
* `wrong` and `resets` are history variables: the wrong codes answered since the
  counter started and the passwords set with the last code sent. The account may
  come from an earlier version: a full counter without a lock, a password hashed
  with few iterations.

Hashes are represented by what was hashed, codes and passwords by model values.
Registration, tokens and mail are left out.

### How `Dialogue` corresponds to the code

* `messages` is indexed by the order in which the process makes the ids;
  `createdAt` is a number of milliseconds, so that several messages can share
  one. `SendMessage` makes id and time, `Insert` is the query: inserts may land
  in any order.
* A handler writes and then tells the tabs: `Insert` and `ReceiveMessage`,
  `MarkRead` and `MessagesRead`, `SaveText` and `MessageEdited`, `DeleteOne` and
  `MessageDeleted`. `tabs` is what the events told a client to show; the client
  is not in the repository and is taken by what the events are for.
* `editMessage` reads the message (`EditMessage`) and saves the text and its
  time only (`SaveText`); a message deleted in between ends the handler.
* `Page`, `HasMore`, `Filter` and `Earlier` are `getChatBetweenUsers` with the
  page size clamped as there; `OpenHistory` and `ScrollUp` are a client that asks
  for what is older than the oldest message it has. `reader` is that client.
* `GetUserChats` and `GetUnread` are the two aggregations, each with its own
  conditions; the list sorts by the time alone, so that of the messages of the
  last millisecond any may be the one shown (`LastMessage`).

Left out: the quotation in a reply, the text shown in the list, typing, the
limit on messages per minute, the cards (`Cards` has them).

### How `Presence` corresponds to the code

`handleConnection` is three steps: the connection opens (`Connect`), the token
is verified and the room joined (`Verify`), the room is counted (`Check`).
`handleDisconnect` is two: the room is found empty or not (`Disconnect`), and,
after `last_seen` is written, the event is sent (`SayOffline`). A connection may
close at any of these points, before it has a user too. `Forget` lets the name
of a closed connection stand for a new one. The value of `last_seen` is left out.

### How `Files` corresponds to the code

* `multer` stores the files of a request under fresh random names before the
  request is looked at (`UploadNew`, `UploadEdit`, `UploadAvatar`); a request
  refused later, by validation or by the service, leaves them (`Refuse`).
* `updatePortfolio` reads the project (`FindOwnPortfolio`), writes the new
  document and gets the old one back (`UpdatePortfolio`), and removes what the
  old one named and the new one does not, one `Unlink` each; an unlink may fail
  and is only logged. Deleting a project and replacing an avatar end the same way.
* `left` is a history variable: files of refused requests, failed unlinks and
  stops. `used` keeps a name from being given twice.

Pictures of a project are a set: a picture listed twice in `photos` is not told
apart. The order of the unlinks is free. Likes and views are single `$addToSet`
and `$pull` queries on fields nothing else reads, and are left out, as are texts,
sizes and types of files.

### How `Ranking` and `Market` correspond to the code

* A share of one is a whole number of `Unit`. The logarithm of the experience
  and the exponent of the activity are tables given as constants, of which only
  the shape is assumed (they start at zero and grow, or fall). Everything else is
  `ranking.math.ts` as it stands, in whole numbers: the quota compares
  `placed` with `floor(p * k)`, and `p` is a fraction, for which the code's
  `+ 1e-9` makes the floor exact.
* `RerankWithNewcomerQuota` is a recursive function over the positions of the
  list; `Choice` is one turn of the loop.
* `Market` is `simulate` in `dynamic.ts`: `PlaceOrder` completes and rates the
  order that is due, lists the category, and gives the order to one of the first
  `TOP_K`. The weights with which a customer chooses are left out; each of the
  `TOP_K` has a chance. `GetSpecialists` and `GetRecommendations` are the server's
  two uses of the same list; the catalogue cuts its page from it.
* The three modes are those of `modes.ts`. Randomly generated populations are
  replaced by every population of given kinds of performer.

### How `SeedData` and `Seed` correspond to the code

* `SeedData` holds the records of `data.ts` in their order, with what ties one
  record to another: keys, owners, outcomes, ages, ratings. Texts, prices,
  skills and categories are left out. A record becomes one line.
* `Seed` is `seed.ts`. `clear()` finds the users by the domain of their e-mails
  (`Find`), deletes reviews, then sends five deletes together (`Delete`, in any
  order), then removes files by their prefix. `seed()` goes through the lists;
  each record is one step, so that an order with its responses, cards and reviews
  is written at once. The script may stop before any step (`Stop`).
* Ids are the key, or the number, with the number of the run. `Host` and
  `Visitor` are real users; `Respond` is the site, in use between two runs.
* `WorkerOf` is the key of who does the work: the performer of the history or the
  accepted response. The script checks nothing of the records; what it needs of
  them to make a lawful set is written down as `LawfulData`, which speaks of the
  records alone and not of the rules by which the script writes them.

## The runs

All runs set `CHECK_DEADLOCK FALSE`: ids, ticks, orders to place and runs of the
script are finite here, and every document may end up deleted, closed or
answered, so an instance may come to rest.

Most runs have scenes, chosen in the initial state and kept: one in which
handlers overlap and, where the code has to survive it, the process stops, and
one (`solo`) in which a handler starts only when no other is in flight. A
property whose name has `Solo` in it is claimed in the second scene only.

| run | instance | what it shows |
|---|---|---|
| `order` | races: 3 users, 1 order, 1 response, 2 handlers, crash; solo: 2 users of 3, 2 orders and a response or 1 order and 2 responses | status and performer agree (`StatusMatchesPerformer`), no deal is hidden and the feed shows what is listed (`VisibleAsDue`), both parties and every responder are confirmed (`PartiesQualify`), `Order` implements `Deal` (`FollowsDeal`); solo: both counters count, the rules on cities, responses and owners hold, a deal is not deleted |
| `cards` | races: 3 users, 3 cards, 2 handlers, crash; solo: 2 users, 4 cards, 1 handler, fairness; 1 order | an accepted card is true of its order, one offer wins; solo: a review has a card to answer, nothing is open on an ended order, an answered card stays, a delivery arrives |
| `reviews` | races: 1 order, 3 handlers, 1 stop; solo: 2 orders with one performer, 1 handler; fairness | nothing unpublished shows or counts, two reviews open together, none retorts, every review opens at last; solo: ratings are exactly those of the published reviews |
| `accounts` | 2 codes, 2 passwords, limit 2, a lock of 2 ticks, 3 ticks; races: 2 handlers, crash; solo: 1 handler | the limit of wrong codes per lock, nobody refused without a running lock, a lock lasts; solo: a code sets one password, letters are apart, a login keeps the password |
| `files` | 2 users, 3 pictures, 1 video, 1 attachment; races: 1 project, 2 handlers; solo: 2 projects, 1 stop | nobody's file is removed by another document's change, no orphans; solo: every picture a project names is on disk |
| `chat` | five scenes: 2 messages under 2 handlers, or 1; 3 messages of 2 dialogues and a reader, with pages of 1 and 2; 3 connections of 2 users, at once or one at a time; fairness for the connections | pages are complete, the two counters agree, what was read stays read, one who left is shown offline at last; solo: tabs and presence are true |
| `ranking` | every population of 4 performers of 5 kinds, 3 modes, 2 orders, 4 orders to recommend for | every beginning of a list keeps the quota, the groups keep their order and marks are where they should be, the books add up, no work is lost |
| `seed` | the whole set of `data.ts`, up to 3 runs, 1 stop | a whole run leaves the set once; its deals, counters and reviews are ones the site could hold; real documents are as they were |
| `delete_race` | 1 order, 2 handlers | an order with a performer is deleted |
| `null_flag` | 1 order, 1 handler, `is_active: null` | an order is listed and cannot be assigned |
| `late_close` | 1 order, 2 cards, 2 handlers | a delivery is closed with the losing offers |
| `rehash_race` | 1 account, 2 handlers | a login puts a changed password back |

Bounds. Conflicts in this code are between two handlers over one document, or
between one handler's queries and a transition in one query; two handlers in
flight and unlimited single-query transitions in between cover both, and the
reviews get a third slot for the timer between two authors. Three users let a
customer, a performer and a rival meet; three cards let two offers compete while
a third card is open, four let a deal go through offer, delivery, its return
and a proposal. A limit of two attempts and a lock of two ticks are enough for a
lock to be set, to refuse, to end and to be set again. Three messages in two
milliseconds make two pages with a tie on their boundary and a message of another
dialogue between. Three connections let one user have two tabs while somebody
else comes and goes. Three pictures let an edit keep one, add one and meet an
avatar. Four performers give lists with nought to four newcomers, and a quota of
one half that asks for none, one and two of them; two orders with
`COMPLETE_AFTER = 1` let one order be completed and rated before the next is
given. The proofs have none of these bounds.

In `seed` the set is the real one, so nothing about it is bounded. Three runs let
a torn run be cleared and a whole one follow, and `--clear` comes last because
nothing can happen after it that has not happened before the first run. A stop is
tried at every step of the first run and at every delete of the later ones. After
a stop between the five deletes that tears the set (its users gone, or its orders
before the responses to them), no further run is made: `clear()` cannot find what
is left, and `SetOnce` claims nothing of it. The site is used between the runs
and not during one.

`ResponseBound` and `CardBound` keep a free id for every handler on its way to
issue one. `Ops` selects the operations a run calls; the passing runs call all.
`First`, `Second`, `RaceCard` and the like only say which ids a scene may use.

Symmetry and liveness. Two passing runs with a liveness property use symmetry.
In `cards` the users, cards and handlers of the racing scene are
interchangeable and those of the solo scene, where the liveness is claimed, are
others and are not; in `chat` the handlers and users of the dialogues are folded,
and the connections, which alone have fairness and a liveness property, are not.
The graph on which a fair cycle is looked for is therefore never folded.

What the solo scenes leave out. Each `Solo` property is false when handlers
overlap, which is why it is claimed where they do not: two edits together publish
an order without a city or without a confirmed owner (`SoloRules`); a user
responds twice (`SoloRules`); a counter is written from an older count, or moved
for a response another handler removed (`SoloCounters`); an assignment meets a
deletion (`SoloDelete`, `delete_race`); a late closing takes a delivery
(`SoloReview`, `SoloDelivery`, `late_close`); two proposals are open, or one
stays open on an ended order (`SoloDangling`); a refusal is saved over an
acceptance (`SoloAnswers`); an older aggregation is written last (`SoloRating`);
a code sets two passwords (`SoloReset`); letters go out together, a login puts
back a password (`SoloSaves`, `rehash_race`); an edit keeps a picture that another
has just removed (`PicturesOnDiskSolo`); `receiveMessage` and `messagesRead` come
in another order than the writes (`TabsTrueSolo`); two tabs each find the other
and neither tells anybody (`PresenceTrueSolo`). They are properties of one
handler's own sequence of queries, which is long enough to get wrong.

### Fairness

`Order`, `Accounts`, `Dialogue`, `Files`, `Market` and `Seed` state none: a
handler may be abandoned at any query. In `Cards` and in `Presence` a query that
was sent is answered while the process runs, so the steps of a handler are weakly
fair; nobody is obliged to start one. In `Reviews` the same holds; windows end
because time passes; and the timer fires whatever the handlers do, because
`onModuleInit` starts it and it repeats every interval. That is strong fairness
in the model, where a timer run needs one of the slots that handlers use too; the
code has no such limit.

### Where the code and its documentation disagree

Four runs end in a counterexample; `PROJECT.json` quotes the sentence each one
contradicts.

* `delete_race`: `deleteOrder` tests the performer on the document it read and
  deletes by id; an assignment between the two is deleted with the order.
* `null_flag`: `is_active: null` passes validation, is "not false" for the feed
  and `isListed` and false for `assignRefusal`.
* `late_close`: `closeOtherOffers` runs after the performer can already act, and
  selects deliveries too: an order stays in review with no card to answer.
* `rehash_race`: a login hashes anew the password it was given after reading
  the account, and saves it over a password changed in between.

One more was met and has no run. `docs/ranking.md:169` says that without the
quota somebody else would stand on a place marked `quotaSlot`. The code
(`ranking.math.ts:235`) marks a place also when no others are left, so of one
performer with the better score and one newcomer, at a quota of one half, the
newcomer is marked on the second place, which is his without a quota too.
`SlotsKept` states what the mark does mean.

Hazards that no property covers, and are not in `PROJECT.json` for that reason: a
stop between the two deletes of `deleteOrder` leaves responses of an order that
is gone; a stop between the publication of a review and the recalculation leaves
a rating that no timer repairs; an answer to a delivery acts on the delivery that
followed it if the first was answered in between; two replies to one review that
were both checked overwrite each other; the seed script removes its responses to
real orders and leaves their `response_count`.

## The proofs

Everything below is proved for every set of orders, users, cards, responses,
messages, files, performers and handlers, and, where they occur, every limit,
every page size, every quota, every length of time and every number of runs and
stops of the script. The assumptions are the
named `ASSUME`s of the modules, which TLC evaluates in the runs:

* the absent value is none of the ids (`OrderAssumption`, `OrderDocAssumption`,
  `CardsAssumption`, `DialogueAssumption`, `FilesAssumption`, `PersonAssumption`),
  inputs have their types, and sets that are counted are finite;
* the two sides of an order differ (`ReviewsAssumption`), a handler ends before a
  lock does (`AccountsAssumption`), a performer starts with no more ratings than
  completed orders (`MarketAssumption`; `population.ts:106` gives at most one for
  each);
* the tables of the logarithm and of the decay are monotone and the quota is a
  share, no more than the whole (`RankingAssumption`);
* the lists of `SeedData` name only users and orders that are in them, and the
  ids of the real documents are not ids of the set (`SeedAssumption`);
* of what the records say (`DataAssumption`, that is `LawfulData`): keys are
  distinct, nobody answers an order twice or his own, at most one response is
  accepted, drafts and the archive are not worked on, a proposal to cancel fits
  the state of its order, a review is not later than the script, suggested orders
  are in the feed, and there are as many records of each case as `data.ts` says
  (more than ten orders offered, one proposal past its deadline and a fresh one,
  two deals just ended, one of them reviewed by one side). TLC evaluates it on the
  whole of `data.ts`. Only `Counted` and `Dealt` use it; the proofs know nothing
  else of the records, except that the performer whom `MCSeed` lets answer the
  real order is one of the set;
* outside the racing handlers of `MCCards` there is one handler
  (`SoloAssumption`): it is what "one at a time" means there.

| module | theorems |
|---|---|
| `OrderProofs` | `Invariance`, `TypeCorrect`, `DealSafety` (status and performer), `Qualified`, `Visibility`, and `Refinement`: every step of every handler is a step of `Deal` or a stutter; `Settled` (a completed order has two parties, and they and its end stay); one handler at a time: `Counters` (both counters are exact), `Rules` (cities, confirmed owners, one response each), `DeletesSolo` (no deal is deleted) |
| `CardsProofs` | `Invariance`, `Truth` (an accepted card is true), `Winner` (one offer wins), `EndsOnce` (of the deliveries and proposals to cancel of an order at most one is accepted); one handler at a time: `ReviewSolo` (a review has a card to answer), `DanglingSolo` (nothing stays open on an ended order), `AnswersSolo` (accepted stays accepted) |
| `ReviewsProofs` | `Invariance`, `Leaks` (from `Blindness` and `Ratings`), `Together`, `Retort`; one handler at a time: `RatingSolo` (ratings are exact) |
| `AccountsProofs` | `Invariance`, `Guesses` (the limit), `Refusals`, `Locks`; one handler at a time: `ResetSolo` (a code sets one password), `SavesSolo` (letters are apart, a login keeps the password) |
| `ChatProofs` | `Invariance`, `Marks` (what was read stays read), `Agree` (the two counters), `Pages` (pages lose and repeat nothing), `Gone` (whoever is shown online has a connection, or the event that he is gone is on its way); one handler at a time: `Tabs`, `PresenceSolo` |
| `FilesProofs` | `Invariance`, `Clean` (no orphans), `Ownership` (no file of somebody else is removed); one handler at a time: `PicturesSolo` (every picture named is on disk) |
| `ScriptsProofs` | of the experiment: `Invariance`, `Books`, `Conservation`, `Quota` (every beginning of a list keeps the quota), `Lists` (the order within the groups, and what a mark means); of the seed script: `RealStays` (real documents are not touched), `Once` (a whole run leaves the set once), `Counted` (`SeededCounters`), `Dealt` (`SeededDeals`) |

Theorems "one handler at a time" have two parts. The first is about the module's
own actions, of which one handler at a time takes steps (`OneByOne`, `OneVisit`),
with no other bound; the second is the property of the run, whose solo behaviours
are some of those. Each property is false when handlers overlap, so this is as
much as can be proved of it.

`Invariance` is `Spec => []IInv`, in every module that has one. The properties are not inductive
alone; each `IInv` adds what a handler still knows behind its awaits.

* Orders. `StatusMatchesPerformer` and `VisibleAsDue` need to know that the
  order a handler is about to insert is still in nobody else's hands and blank
  in the database (`Unmade`, `Made`), that an order once read is stored or
  deleted and never unmade (`Placed`), and that the assignment's performer is
  not the customer. `PartiesQualify` needs what was found out before an await to
  be true still: behind `actorCheck` the actor is confirmed, behind `otherCheck`
  the other party is (`Assigning`).
* Cards. `AcceptedTruth` is about a card saved after its order moved, so the
  invariant must say the same of the handler on its way to save it
  (`Remembers`), and that what happened cannot unhappen: an order once given
  keeps its performer and an ended order its end. `OneWinner` is proved of the
  cards that have won, their answer saved or not (`Winning`). `EndsOnce` is no run's
  property: it adds to the invariant that one card at most has ended an order, its
  answer saved or not (`OneEnding`), which holds because the query that moves the
  order finds none that has ended. That the orders keep to `Deal` is not a result
  about `Cards`: it takes their steps from `Deal`, and it is `Refinement` that
  shows the order service to make no other.
* Reviews. `Blind` needs every review in a batch about to be published to exist
  and to have its counterpart or a closed window (`Rests`). `OpenTogether` goes
  by the order of two inserts: whoever looks second finds both.
* Accounts. `GuessLimit` follows from `Counters`: the wrong codes never outnumber
  the attempts, and a lock stands only on a full counter. `RefusedWhileLocked`
  needs the time: the lock a handler sets ends after the start of every other
  handler in flight (`InTime`). `Carried` says a handler about to save a password
  has one.
* Dialogues. A message not yet written is unread and one that is has two
  different ends (`Written`); a handler on its way to a write holds a message
  that was made (`Holds`), so an edit cannot land where a new message comes.
* Presence. A connection that is closing with a user has left its room, and one
  without a user was never counted (`Settled`); from this the last of a user's
  connections to close is the one that says so.
* Files. Every file has one home: not given yet, the handler that stored it, a
  project, a user's avatar, the chat, or gone. `\E h : Homes(h)` says there is an
  assignment of homes that agrees with every document and every handler; a step
  moves the home of the files it touches. What an unlink removes has the home of a
  project or none, which is why it is never an avatar in use or an attachment.
* Market. `BooksHold` is inductive with the types, once a workload is any
  whole number (`Worker`); the sequence of orders in work is counted by position.
* Pages. While there is more to load, the reader has every message at or above
  the last he got that was there at the start and still is; at the top, all of
  them (`Paged`). A page holds the newest of what is older than that message, and
  messages of one millisecond are told apart by their ids.
* Quota. After k turns of the loop the rows placed and the two queues make up the
  sorted newcomers and the sorted others (`At`), and the row at each place says
  why its turn chose it (`NewcomerRow`, `OtherRow`): a newcomer because the quota
  of this place still lacked one, or because he was the better. `QuotaHolds` and
  `ListHolds` are read off the rows.
* Seed. Real documents stay because what `clear()` found is never real, and what
  is about real users only is about no order of the set (`RealSafe`). `SetOnce`
  claims something of the end of a run, so the invariant (`Stages`) says what the
  database holds at every line of the script before it: after `Find` everything
  that is not real was found; between the five deletes what is left of each
  collection (`Deleting`); after them the real documents alone (`Bare`); and from
  then on a set in which nothing names a user or an order that is not written
  yet (`OneSet`, `Made`). After a stop, what the next run finds names nobody who
  is gone (`Owned`), unless the stop tore the deletes.
* The set itself. `SeededDeals` and `SeededCounters` too claim something only at
  the end, so `Contents` says what each collection holds after every record: of
  the records the lists are through with (`DoneUsers`, `DoneOrders`, `RatedUsers`,
  `CountedUsers`) exactly the users, orders, reviews and cards that these records
  stand for (`UsersTrue`, `OrdersTrue`, `ReviewsTrue`, `CardsTrue`), a count of
  responses on each order (`AnswersTrue`), and for the users already counted the
  numbers that a count would give now (`RatingsTrue`, `CountsTrue`): nothing later
  in the run adds a review or an order. It must also hold through the answers of
  real users to the set and of the set's performer to a real order, and it needs
  to know that real documents hold no cards and no hidden reviews (`RealPlain`).
  From `Contents` at the end everything else is about single records
  (`DealOfRecord`, `StatesOfRecord`, `ProposalOfRecord`, `ReviewOfRecord`), and the
  numbers of the cases come from pairing records with documents (`PairedOff`).
* One handler at a time. The invariant (`Alone`, `Exact`, `Present`, `InTouch`)
  says that at most one handler is at work and what that one knows: its snapshot
  is the document, the number it counted is the number there, the files it will
  remove are named by no project, the card it answers is still open (`Knows`,
  `Sound`, `Current`, `Aware`). Between handlers nothing is owed; within one, the
  step that is still to come makes up the difference (`Refreshes`, `Adjusts`, `Owes`,
  `Covers`). In `Cards` it must also say that each order's cards are in one of
  the few combinations a single handler leaves (`Tidy`): an open delivery exactly
  in review, a proposal at most, nothing after the end, except while the handler
  that moved the order has its card still to insert, save or close.

Each proof takes one lemma per action, after lemmas that say what a step leaves
alone for the other handlers. Where an induction over numbers is needed (pages,
lists, sizes of sets) it is done by the least number without the property, which
exists because the order of the numbers is well-founded (`WFMin`,
`NatLessThanWellFounded`): the library's induction theorems take an operator as a
parameter, which the provers cannot instantiate.

Model-checked only: `SoloDelivery`, `EveryReviewOpens` and `OfflineAtLast`, since
liveness under fairness is out of the proof system's reach (`Gone` is the safety
part of the last); that the records of `data.ts` are as `LawfulData` says, which
TLC computes; the four counterexamples. Every invariant and every action property
of a run is proved.

## Plan

Done: `Order` over `OrderDoc`, `Deal` and the refinement; `Cards`; `Reviews`;
`Accounts`; `Dialogue`; `Presence`; `Files`; `Ranking` and `Market`; `SeedData`
and `Seed`; the theorems listed above. Left, in this order:

1. `Order` and `Reviews` composed in one state. That the parties of a completed
   order are two users and stay so is proved (`Settled`); that the window opens
   with the completion and not before is read off the code.
2. `viewOrder`, likes and views, and the content of responses, for completeness.

## Not modelled

Controllers, DTO classes, guards and modules (routing and configuration), mail
(output only), the reference tables of categories and skills, request limits and
tokens (the state belongs to the libraries), the shared helpers: no state another
component relies on. Of the experiment: the generator of populations, the static
metrics, statistics, reports and files, which are arithmetic over random numbers.
Of the seed script: texts, prices, skills, drawn pictures, the hash of the
password. Of the modelled services: registration and the signing of tokens,
typing, `viewOrder`, likes and views, the content of responses, the search by
text and the other fields of the catalogue's filter, the lists and the summary of
reviews. `PROJECT.json` gives the reason for each.
