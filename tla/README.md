# Models, checks and proofs for A Series Of Swift Projects

The repository is a collection of small iOS apps. Most are one screen over one
formula. A few hold state that several actors change in an order nobody chose:
a chat fed by a network listener, lists kept in a database, labels filled by
answers from the web. This directory models those, checks the models with TLC
and proves what matters most with TLAPS.

## 1. Inventory

| component | state it keeps | operations | interacts through | hard part |
|---|---|---|---|---|
| Flash Chat, chat screen (`ChatViewController.swift`) | `messages`, the rows the table counted, the text field | snapshot listener, queued reload + scroll, send, its completion, queued clear, log out, data source | closures run on the main queue | snapshots, reloads and completions of different age interleave; the listener outlives the screen |
| Flash Chat, Firestore client (vendored pod) | the write queue of each user, the document cache, the listener, online state | listen, write, credential change, accepted/rejected write, watch events, online state | worker queue in, main queue out | two FIFO queues, lost connections, restarts, accounts |
| Flash Chat, sign-in screens | navigation stack, warning label, the current user, requests in flight | open, press, back, log out | Firebase Auth callbacks, segues | two presses before the first answer, an answer after the screen was left |
| Todoey, lists and search | two tables, their live `Results`, the search text | add, swipe away, search, select, back | handlers on the main thread, Realm | table rows against live results, accumulated filters |
| Todoey, Realm store (vendored pod) | the live store, the file, an open transaction | `write`, reopen | shared by both screens | a commit that fails is only printed |
| Clima, ByteCoin | a few labels | ask the web, show the answer | URLSession threads, main queue | answers that overtake each other |
| Quizzler (two variants) | question number, score, a 0.2 s timer | answer, refresh | timer | a tap before the refresh |
| EggTimer | seconds passed, a repeating timer | choose, tick, alarm | timer, `sleep(5)` on the main thread | restart while a tick is due |
| Calculator | display text, stored symbol, two numbers | digits, operators, `=`, `+/-`, `AC`, `%` | taps | a long sequence of legal keys |
| Flower Identifier | two local results written by another thread | classify, fetch text, fetch picture | URLSession thread against `sleep(5)` | a late answer, a data race |
| Destini, Tipsy, BMI, SeeFood, Twittermenti, InspoQuotes, Notify!, News, ErrorCirculate, Comptialize!, Dicee, Magic 8 Ball, layout exercises, playgrounds | a number or nothing | one handler each | | none, or unfinished code |

What makes each correct:

- *Chat screen*: the table never asks for a row the array lost, unless a view
  really lost documents; what is stored gets a row; a completion never empties
  text that was not sent; completions tell the truth; a message moves forward
  through its life once, across restarts and accounts.
- *Todoey*: a row on screen is the object behind it; what the search bar shows
  contains its text; what is on screen is on disk unless a commit failed; no
  gesture raises unless a commit failed; nothing lost or deleted returns.
- *Sign-in*: a chat is open only for somebody signed in; who logs out stays out;
  a warning belongs to the press that earned it; one press opens one chat.
- *Clima, ByteCoin, Flower Identifier*: what is shown is the newest answer,
  unless two requests overlapped or one failed; every request ends.
- *Quizzler, EggTimer, Calculator*: what is scored, counted or computed is what
  the screen showed when it was touched.

`PROJECT.json` lists every component with its status, and every hazard of the
code at its line, with the properties that cover it or the reason why none does.

## 2. Modules

```
FirestoreClient                              Realm        WebRequests
      |                                        |           |       |
  FlashChat --refines--> MessageLifecycle   Todoey       Clima  ByteCoin
   |      |                                  |    |       |  |    |  |
MCFlashChat FlashChatProofs          MCTodoey TodoeyProofs|  |    |  MCByteCoin
                                                     MCClima |    |
                                                          WebAppsProofs

SignIn, Quizzler, EggTimer, FlowerIdentifier, Calculator:
    each with MC<name> and <name>Proofs
```

### FirestoreClient

The SDK is vendored under `Flash-Chat-iOS13/Pods`, so its steps are translated
from its C++: `SyncEngine`, `EventManager`, `QueryListener`, `View`,
`FirestoreClient`. `workerQ` is the client's worker queue (tasks the app
posted), `mainQ` the main dispatch queue (blocks the client posted). One action
per task (`RunListen`, `RunWrite`, `RunUser`) and per network event
(`WriteAccepted`, `WriteRejected`, `WatchAdds`, `WatchRemoves`, `WatchCurrent`,
`OnlineStateChanges`, `ListenFails`). `Publish` is what all of them end in: the
completions first, then the listener's event if it is owed one.

### FlashChat

`ChatViewController` over that client. Each closure that the main queue runs is
an action (`RunSnapshot`, `RunError`, `RunReload`, `RunSaved`, `RunFailed`,
`RunClear`, `RunAuth`), and so is each thing the user or the system does
(`SendPressed`, `Type`, `LogOutPressed`, `ForcedSignOut`, `SignInAgain`,
`FirstLayout`, `TouchMissingRow`, `Relaunch`). `shown` is what the table counted
at its last reload, while `messages` is the array its data source reads: the
code's hazards are the distance between the two. `crashed` records a
`scrollToRow` or an array access that raised.

### MessageLifecycle

The abstract specification of one message: `unsent -> queued -> stored ->
committed -> gone`, with `refused` and `lost` as ends, and a screen that shows
only what was stored or committed. `FlashChat` instantiates it with
`phase[d] <- PhaseOf(d)` and `seen <- shown` without placeholders.

### Realm and Todoey

`Realm` has the store the process sees (`live`), the store in the file
(`disk`), and whether a failed commit left the transaction `open`: RealmSwift's
`write` begins, runs the block and commits, and a commit that throws neither
rolls back nor closes. The next `beginWrite` then raises. `Todoey` has the two
screens: `categoryRows` and `itemRows` are the rows the tables display,
`CategoryResults` and `itemArray` the live results behind them, `filters` and
`byDate` the chain of filters and sorts that `searchBarSearchButtonClicked` has
built up. A swipe is one step, as SwipeCellKit runs the handler and `deleteRows`
in one call; it raises when the count of rows and results disagree.

### SignIn

`WelcomeViewController`, `LoginViewController` and `RegisterViewController` over
the part of Firebase Auth that answers them. `stack` is the navigation
controller's screens. Every press of Log In or Register is an entry of `presses`
with the screen it was made on and how far its answer has come: `sent` to the
backend, `token` received, then `succeeded` or `failed` with a completion on
`mainQ`, then `chat`, `warned` or `unseen`. Auth signs the user in when the
account's data arrives (`SignsIn`) and posts the completion afterwards
(`PushChat`, `ShowWarning`), so Back, Log Out, a second press and a relaunch may
come between any two of these. Two requests make one sign-in: the second may
fail when the first has already made the account. `source`, `stray` and
`revoked` are history, for the properties only: which press signed the user in,
which presses overlapped or were walked away from, and whether the SDK itself
signed the user out.

### WebRequests, Clima, ByteCoin

`WebRequests` is what both apps share: `WeatherManager.performURL` and
`CoinManager.performRequest` start a task in a URLSession of their own, the
completion handlers run on background queues in any order (`Answer`, `Fail`),
and a good answer posts one block to the main queue that sets all labels
(`SetLabels`). `shown` is the request whose answer the labels carry. `Clima`
adds the search field, whose end of editing sends the question, and the location
button with Core Location's reports, which wait in `reports` for a turn of the
run loop; `stopUpdatingLocation` in `DidUpdateLocations` also ends a location
request made since. `ByteCoin` adds the picker.

### Quizzler

Both variants in one module; `variant` chooses the number of buttons and the list
of right answers. `AnswerButtonPressed` judges the title the button has *now*
against the *current* question and moves on; the screen (`shownQuestion`,
`shownScore`, `colour`) follows when one of the timers it started calls
`UpdateUI`. Between the two the same button may be tapped again.

### EggTimer

`hardnessSelect` stops the timer that `timer` refers to and schedules another;
`updateCounter` counts a second or sounds the alarm, and the alarm puts the main
thread to sleep. Taps and ticks that fall into that sleep wait (`taps`, a timer
with `due = 0`). `Second` is the passage of time: while the main thread is awake,
it serves whatever is due before the next second begins.

### FlowerIdentifier

The main thread asks for a text, sleeps five seconds and reads a local variable;
then the same for a picture's address; then SDWebImage loads the picture. `pc` is
where it sleeps, `finalResult` the variable, which a URLSession thread may be
writing (`BeginWrite`, `EndWrite`) when the main thread reads it: `Read` then
allows nil, the value, or the end of the program. `loads` and `mainQ` are the
loads of SDWebImage 5.8.4 as its vendored source has them: `sd_setImage` cancels
the load under way, but a block that load has already posted still sets its
image; a picture in memory, or an address that failed before, is set at once.

### Calculator

The keypad over the label, the stored symbol and the two stored numbers. Numbers
are exact: a sign and a fraction, with n/0 for infinity and 0/0 for nan. `text`
is a printed number, the keys typed, or (which the code must prevent) keys run on
after a number. `CalcButtonPressed` reads the label first; a label that is not a
number, or an `=` without an operator, ends the program. `sum` is history: the
part of "number, operator, number, =" that the last keys spell out.

## 3. Runs

| run | instance | shows |
|---|---|---|
| `ChatSending` | 3 documents (one malformed), one user, others writing and deleting, rejections, a failing listener, typing | `TypeOK`; `TableLagsOnlyBriefly`: table and array differ only while a reload is queued or the array is empty; `ScrollFailsOnlyAfterLoss`, `RowFailsOnlyAfterLoss`: the two exceptions need a view that lost a document (or, for rows, the placeholders); `UnsentTextIsSafe` |
| `ChatAccounts` | 2 documents, 2 accounts, at most 2 sign-ins | `ListenerUpToDate`: the last event raised is the current view, also over a credential change; `SavedMessageIsDelivered`: a completion runs after the snapshot with its message |
| `ChatRestart` | 2 documents, 2 accounts, one relaunch, a connection that comes and goes | `CompletionsAreTruthful`; `LifecycleHolds`: FlashChat implements MessageLifecycle |
| `ChatDisplay` | 3 documents, fairness | `EveryStoredMessageIsShown` |
| `TodoLists` | 3 titles, 2 search texts, 5 objects, one relaunch, failing commits | `TypeOK`; `RowsFollowResults`; `RaisesOnlyAfterFailedCommit`; `ShownIsSaved`; `SearchIsSound`; `TypingOnlyNarrows`; `SavedOnlyWhenMade` |
| `ChatSignIn` | 1 account that may or may not exist, 2 sign-in screens, 3 presses, one relaunch | `TypeOK`; `ChatMeansSignedIn`: no late completion opens a chat for nobody; `LoggedOutStaysOut`: only an answer that was still on its way signs somebody in behind the welcome screen; `OneChatPerPress`: two chat screens need overlapping presses; `WarningIsHonest`; `PressIsAnswered` |
| `ClimaSearch` | a city, a text that makes no URL, the empty text, 3 requests, 2 presses of the location button | `StaleOnlyAfterOverlap`: at rest the labels show the newest request unless it failed or overlapped; `EveryRequestEnds`; `EveryPressIsLocated`: a press is served or its error printed, also when an older place ended its request |
| `ByteCoinPicker` | 3 currencies, 4 requests | `NeverGoesBack`: labels respect real time; `LabelFollowsPicker` |
| `QuizTaps` | both variants with their own answers, 14 taps, 3 of them within 0.2 s | `TypeOK` (no question past the last); `ScoreIsDeserved`; `ScreenFollows`; `LagIsBrief` |
| `EggAlarm` | 300, 420 and 720 s, a 5 s alarm, 3 taps | `OneTimer`; `AlarmIsOnTime`: one second after the time of the egg chosen last; `EveryEggIsDone` |
| `FlowerPhotos` | 3 photos | `MismatchHasCause`: at rest text and picture are of the last flower, or one of four named causes explains it; `NeverLeftBlank` |
| `CalculatorKeys` | digits 0 and 2, every other key, 9 presses, 3 keys a number | `StopsOnlyWithoutOperator`; `TextIsOneNumber`; `SumIsRight` |

Bounds, and why they are enough:

- `MaxBacklog` (3 or 4): client and network wait while that many blocks are
  queued for the main thread. The main thread's own blocks are not limited by
  it. The hazards need two events and the reloads of the first in the queue.
- `Docs2`, `Docs3`: one message can overtake another; the third is malformed, so
  that a snapshot may be non-empty and yet give no message.
- `MaxSignIns` 2: the account changes and changes back. `MaxRelaunches` 1:
  stored writes survive once; the second relaunch starts from a state of the
  same form.
- `MaxObjects` 5: a category with four items, or two categories with three
  between them; titles 1 and 3 share a search text, 3 alone has the second, and
  any title may occur twice.
- `Env` names what the surroundings do in an instance, to keep each run about
  one question. Between them the runs switch on every event.
- `ChatSignIn`: two screens, so that an answer may find its own screen gone and
  another in its place; three presses, so that two overlap and a third follows.
  One account is enough: no guard compares accounts with each other.
- Requests: three in Clima let two overlap and a third follow both; four in
  ByteCoin let an answer be overtaken twice. Clima's searches keep room for the
  places Core Location may still report.
- `QuizTaps`: 14 taps go past the longer list's 12 questions, so both quizzes
  wrap; three at once cover a tap before and after each timer of an overlap.
- `EggAlarm`: the app's own times; a third tap can hit the alarm of an egg that
  itself replaced another.
- `FlowerPhotos`: with three, an old load can be cancelled twice over.
- `CalculatorKeys`: zero and one other digit tell place, point and division by
  zero apart. Nine presses leave five before a whole sum of digits and fit a
  whole sum of decimals. `MaxNumber` keeps products within TLC's 32 bits.
- `CHECK_DEADLOCK FALSE` is stated because these instances really stop: the app
  may have raised, or every document, object, press, request, tap, photo and
  relaunch may be used up.
- Symmetry: only in the two runs that check invariants alone. `d1` and `d2` are
  both well-formed (`d3` is not and is left fixed); the accounts are alike.

Fairness (`FairSpec`): the run loop serves the main queue, the worker queue runs
its tasks, and a table on screen is laid out. iOS and libdispatch give these to
every live process. Nothing is asked of the network, the backend or the user, so
the chat's liveness property holds offline as well. The other modules need, each
for itself: a request to Auth, to the web or to Core Location ends, if only by
the time-out URLSession and Core Location have (`Answers`, `Ends`, `Locates`);
the run loop serves the main queue, the delegate and due timers; `sleep` ends
and a load ends (`Wakes`, `Ends`); time passes (`Second`). Where a press may be
answered only in theory because the user keeps acting, fairness is stated of the
answer and never of the user.

Every property has a mutant: the definitions commented "A mistake" beside the
true ones. Each is a slip that could have been made in that code (a table not
reloaded, a filter built afresh, a transaction joined instead of refused) and
breaks the property it is listed with.

## 4. Proofs

Assumptions: `ClientAssumption`, `ChatAssumption`, `RealmAssumption`,
`TodoeyAssumption`, `SignInAssumption`, `RequestsAssumption`,
`ClimaAssumption`, `QuizAssumption`, `EggAssumption`, `FlowerAssumption`,
`CalculatorAssumption`: finite sets of documents, disjoint placeholders, natural
bounds, positive times, digits that are digits. TLC evaluates them on every run.

Every invariant, every action property and the refinement that a run checks is
also the statement of a theorem; only liveness is model-checked alone.

### Flash Chat

`FlashChatProofs` begins with `TypeCorrect`, `Spec => []TypeOK`. `TypeOK` is
inductive; `WorkerType`, `NetworkType`, `MainType`, `UserType` and
`RelaunchType` treat one group of actions each. What follows rests on it.

- `TableFollowsArray` (`TableLagsOnlyBriefly`) is inductive over `TypeOK`. The
  client only ever appends to the main queue (`WorkerAppends`,
  `NetworkAppends`), so a queued reload stays queued until it runs, and the
  snapshot that changes the array queues one reload per message.
- `ScrollIsSafe` and `RowsAreSafe` need more than they say. The strengthening
  `GrowingChat` says that, while no view has lost a document, the documents last
  delivered, the snapshots in the queue and the current view form a chain under
  inclusion (`Chain`), and that the array holds the well-formed part of the last
  delivery (`ArrayMatches`). A reload in the queue then always finds messages,
  and a table that counted rows finds them all.
- `CompletionsTellTruth` (`CompletionsAreTruthful`) follows from `TruthInv`: a
  write waits once for the worker queue, then for the backend, then, as its
  completion, on the main queue, and is never in two of these places. Every step
  of the client moves it one place on or drops it, so no completion runs twice,
  and the verdict it carries is the one the store and the backend agree on.
- `UnsentTextStays` (`UnsentTextIsSafe`) is inductive over `TypeOK` once
  `Outstanding` is read as a union of the places a send can be
  (`OutstandingMeans`): only `sendPressed` adds to it, and then the text in the
  field is text that was sent.
- `ScreenConverges` (`ListenerUpToDate`) and `FieldIsClearedAfterEvent`
  (`SavedMessageIsDelivered`) speak of the *last event before a place* of the main
  queue. `LastIs` is that as a relation, not a recursive function, with lemmas on
  what appending, removing the head and reaching the end do to it. `EventInv` says
  that a live listener's last event is the view, that a completion exists only
  for a live listener and behind an event that holds its document (a network step
  posts completions first, and to a live listener `Publish` posts an event exactly
  when the view changes), and that an error is the end. That a relaunched client
  starts owing nothing needs `AttachInv`: the listener is attached once, by the
  first task.
- `ChatImplementsLifecycle` (`LifecycleHolds`): every step of the screen over the
  client is a step or a stutter of `MessageLifecycle`. `PhaseOf` reads the phase
  off the place of a document, so the proof first shows that a document is in
  one place (`Apart`), a write is stored once and for one user (`StoredOnce`), and
  whatever the table, the array or a queued snapshot holds is `Known`
  (`SeenKnown`); together `LifeInv`. `Enters`, `Still` and `Shows` then name what a
  step does to the places, and `MoveIsMove`, `ShowIsShow` and the case of
  `Relaunch` turn each into `Move`, `Show` or `Restart` of the abstract module.

### Todoey

`TodoeyProofs` reduces each handler to one of six steps of the Realm
(`StepsOfTheRealm`) and shows that `RealmInv` is inductive: the two stores agree
unless a transaction is open, and no item of either is newer than the clock.
`NothingComesBack` proves `SavedOnlyWhenMade` from it, `LostOnlyWhenOpen` that
only an open transaction can be lost.

The tables need the order of the rows. `Sorted` gives the object of row n as the
one with n - 1 objects before it, so no recursion is involved: under a strict
total order ranks grow (`RankGrows`), are unique and fill 1 to the cardinality
(`EveryRowIsTaken`, a counting argument on finite sets). Hence a sorted set has
one row per object (`SortedShowsAll`), and taking an object out is taking out its
row (`SortedWithout`): the equation that makes `deleteRows` agree with the
results. Dates order the items because no two items of a category have the same
date (`DatesDiffer`). `TodoInv`, that with `RealmInv`, is inductive and gives
`RowsAreResults`, `OnlyOpenWritesRaise` and `TodoeyTypeCorrect`; `TablesAreSaved`
and `SearchShowsMatches` read it off, and `TypingNarrows` is the action property
over it: typing only ever adds a filter.

### Sign-in

`SignInProofs` proves the type invariant and all four safety properties of the
sign-in screens. None is inductive. The inductive invariant `SignInv` says of the
screens (`ScreenInv`) that two presses that wait at once are both stray, that a
press that waits and is not stray still has its screen, and that once a chat is
open everything still waiting under it is stray; of the user (`UserInv`) that
whoever signed in on a screen still there, or has a chat open, is signed in
unless the SDK signed them out; of the warning (`WarningInv`) that no screen
without a chat on it belongs to a press that opened one. `OnStackMeans` first
reduces "this screen is on the stack" to the second element.

### Clima and ByteCoin

`WebAppsProofs` treats both over the same requests, ByteCoin by EXTENDS and
Clima as the instance `Weather` beside it. `WebInv` puts a request at most once
on the queue, as queued, and says that what had ended when a request was sent
has ended for good; `NeverGoesBack` is inductive with it, because a block in the
queue belongs to a request that has not ended. `NewestIsShown` derives
`StaleOnlyAfterOverlap` from it. `CoinInv` adds that the last question asked is
the one picked, which gives `LabelFollowsPicker`. `ClimaInv` adds Clima's types:
what the field and Core Location send is a question, so Clima, too, only takes
steps that keep `WebInv` (`WebIsShared` says that its requests are those of
`WebRequests`), which gives `WeatherIsNewest`. That theorem repeats what it
needs of `ClimaAssumption` as its hypotheses, since an instance brings none.

### Quizzler and EggTimer

`QuizzlerProofs`: the type invariant and the two properties are inductive
together (`QuizInv`): a title answers only its own question (`RightIsButton` and
the titles), and each timer leaves the screen up to date. `EggTimerProofs`:
`EggInv` says that whatever is alive is the current timer, that nothing is alive
while the alarm sounds, and relates the seconds elapsed to the seconds counted
and to whether the tick of this second was served; `AlarmSoundsOnTime` is the
action property.

### Flower Identifier

`FlowerIdentifierProofs`: at most one load can still give a picture, that of the
picture asked for last (`sd_setImage` cancels the others). `LastAsked` follows
that picture from its load to its block on the main queue and into the view: it
is still to come, or failed, or queued with no other picture behind it
(`NoOtherPicture`), or shown with no other picture queued, unless it was set from
memory past a queued block. With the same bookkeeping for the text this is
`FlowerInv`; at rest only "shown" and the recorded causes remain, which is
`MismatchIsExplained`.

### Calculator

`CalculatorProofs`: `CalcInv` describes the label (printed or typed, never both,
at most one point, nothing printed while typing goes on) and the stored symbol;
`LabelReads` and `StopHasOneReason` follow for key sequences of any length.
`SumsAreRight` needs `SumInv`: what the last keys spell out, up to "number,
operator, number", is what the label and the store hold. The arithmetic stays
closed: the proof never opens `Number` or `Compute`, so it holds for whatever
they compute, and that they compute the right numbers is not its subject.

### What TLC keeps

The seven liveness properties (`EveryStoredMessageIsShown`, `PressIsAnswered`,
`EveryRequestEnds`, `EveryPressIsLocated`, `LagIsBrief`, `EveryEggIsDone`,
`NeverLeftBlank`) need fairness and ENABLED, which the prover does not handle.
What `gcd`, the exact fractions and `Number` compute is recursion over data and
is evaluated by TLC on the instance of `CalculatorKeys`. `GrowingChat`,
`EventInv` with `AttachInv`, `LifeInv`, `FlowerInv` and `SumInv` were found with
TLC's help: each was an invariant of the runs above before it was proved.

## 5. What the models leave out

- The order of messages by date: a snapshot is the set of its documents. No
  property modelled depends on the order within the list, but a sender whose
  clock is behind does insert its message in the middle of it; see the hazards.
- Limbo documents, garbage collection of the cache, transactions and the wire
  protocol of Firestore.
- One chat screen is modelled. Its listener stays after logging out, as in the
  code, but a second screen opened by the next sign-in is not a second set of
  variables.
- Todoey's colours, keyboards and alert texts. A blank title changes nothing but
  the alert's own title, so `AddItem` starts when a title is accepted. Items of
  a deleted category stay in the model's store as they stay in the file. Dates
  are taken to be distinct and ascending.
- Realm's core is a binary library in the pod. That a commit which throws (a full
  disk) leaves its transaction open is read from the layers above it: neither
  `Realm.write`, `RLMRealm` nor the object store rolls back or ends it. An error
  in `beginWrite` itself, or inside the block, raises at once and saves nothing:
  for the model that is `Kill`.
- A Realm that is opened by other threads or processes: this app has none.
- Sign-in: the welcome screen's animated title and the navigation bar. A segue
  from a screen that is no longer in the navigation controller presents nothing,
  as UIKit has it. A chat here is an entry of the stack; what happens inside it
  is FlashChat's.
- Clima: the names of condition symbols and the format of numbers. `weather[0]`
  of an empty list would trap; the service documents at least one entry.
- EggTimer: the progress bar, a function of the counters. That the main thread
  serves what is due before the next second begins is an assumption about speed.
- Flower Identifier: the classification (an external choice) and a Core ML model
  that does not load. What a torn read yields is a choice of three outcomes.
- Calculator: rounding, and how numbers are spelled.

## 6. Not modelled, and what remains

Not modelled, because nothing in them interleaves or lasts longer than a tap:
Destini (a constant graph of six stories), Tipsy and BMI Calculator (one
floating-point formula and a segue each), the unfinished apps (a stub handler,
one library call or one appended value each), Dicee, Magic 8 Ball, the layout
exercises, the playgrounds. The rest of the repository is vendored pods; of these
the models translate the parts whose order of events the apps depend on
(Firestore's client, Firebase Auth's sign-in, Realm's write, SDWebImage's loads).

What remains: the invariants are proved for the specifications without fairness,
so what the liveness properties add rests on the bounds of section 3. The
abstract `MessageLifecycle` has no liveness part; a chat that refines a fair
lifecycle would say when a stored message must leave that phase.
