------------------------------ MODULE Services ------------------------------
(***************************************************************************)
(* The services that share nothing but the employees who use them, each on *)
(* its own small instance: the initial state chooses one, and only that    *)
(* one moves.  The model values x1, x2, y1, ... of the configuration stand *)
(* for different things in different services.                             *)
(***************************************************************************)
EXTENDS Integers, Sequences, FiniteSets

CONSTANTS
  Calls, Payloads, MaxRetries, NoCall,
  Tables, BookingRequests, Bookings, Starts, Ends, MinDuration, MaxDuration,
  CheckInEarly, Grace, MaxTime, MaxRevision, MaxEdits,
  Items, Stocktakes, Receipts, Quantities, MaxStock, MaxMoves,
  Families, MaxSessions, MaxCredentials, MaxTokens,
  People, Founder, CustomRoles, Positions, MaxRolesEach,
  Cups, CodeTTL, MaxPickupCodeVersion, Ratings, Resolutions, MaxHours,
  Drinks, Remakes, Chats,
  Employees, Categories, MenuItems, Pictures, Configurations, MaxProcessing,
  MaxRemovals, None,
  Devices, NoDevice, MaxAttempts, MaxJobs, MaxLines, MaxClaims,
  Insights, Periods, Workers, Figures, Empty, DailyLimit, Attempts,
  Assets, Managers, Amounts, MaxTotal, MaxWrites,
  Settings, SystemOwned, Administrators, SettingValues, MaxVersion,
  Promotions, Names, Cashiers, Bills, Terms, Windows, SubTotals, TaxRates,
  MaxDay, MaxSaves,
  Sales, Price, MaxDate,
  Stations, Dishes, Preparations, Portions, Pickups, MaxClock, MaxOrdered

\* What stands for nobody is none of the calls; the shop has a founder and a
\* position; times and quantities are numbers; a drink is not named like an
\* event nor a chat like the staff's or no chat; an insight's job has an
\* attempt, and what stands for no worker and no period is none.
ASSUME ServicesConstants ==
  /\ NoCall \notin Calls
  /\ Founder \in People /\ Positions # {}
  /\ Starts \subseteq Int /\ Ends \subseteq Int
  /\ {MinDuration, MaxDuration, CheckInEarly, Grace} \subseteq Nat
  /\ Quantities \subseteq Nat
  /\ MaxCredentials \in Nat \ {0}
  /\ (Drinks \cup Remakes) \cap {"STAFF", "ACCEPTED", "REJECTED", "CANCELLED", "READY"} = {}
  /\ Drinks \cap Remakes = {}
  /\ "staff" \notin Chats /\ "none" \notin Chats
  /\ Attempts \in Nat \ {0} /\ DailyLimit \in Nat
  /\ None \notin Workers /\ None \notin Periods

\* What stands for nothing is none of what it may stand in for; an item has a
\* configuration; amounts, prices, rates and bounds are numbers.
ASSUME RecordsConstants ==
  /\ None \notin Pictures /\ None \notin MenuItems
  /\ Configurations # {} /\ MaxRemovals \in Nat
  /\ None \notin Assets
  /\ None \notin {"IN_USE", "MAINTENANCE", "BROKEN", "LIQUIDATED"}
  /\ Amounts \subseteq Nat /\ MaxTotal \in Nat /\ MaxWrites \in Nat \ {0}
  /\ SystemOwned \subseteq Settings /\ "none" \notin Settings
  /\ MaxVersion \in Nat \ {0}
  /\ None \notin Promotions /\ SubTotals \subseteq Nat /\ TaxRates \subseteq Nat
  /\ \A terms \in Terms : terms.value \in Nat /\ terms.max \in Nat
  /\ MaxDay \in Nat /\ MaxSaves \in Nat \ {0}
  /\ IsFiniteSet(Sales) /\ Price \in Nat
  /\ {MaxHours, CodeTTL, MaxPickupCodeVersion} \subseteq Nat

\* No printer and no station stand for none; times, portions and bounds are
\* numbers.
ASSUME KitchenConstants ==
  /\ NoDevice \notin Devices /\ "idle" \notin Devices \cup {NoDevice}
  /\ {MaxAttempts, MaxJobs, MaxLines, MaxClaims} \subseteq Nat
  /\ None \notin Stations
  /\ Preparations \subseteq Nat /\ Pickups \subseteq Nat
  /\ Portions \subseteq Nat \ {0}
  /\ MaxOrdered \in Nat

VARIABLES
  on, \* the service of this behaviour
  keyRow, keyHolder, keyCall, keyEffects, keyKept, keyPurged,
  now, table, asked, booking, edit,
  item, ledger, shelf, missing, cameBack, moves, stocktake, receipt, reviewed, supplier,
  employee, family, live, issued, ended, overlapped, rotating, reused, signingIn,
  admin, resetToken, missed,
  staff, role, position, request,
  hours, pickup, cups, opinion,
  order, drink, chat, linkToken, readyQueued, windowOpen, event, handler, ack, told,
  unlucky,
  category, menuItem, screen, picture, uploading, late, cleaning, bucket,
  device, station, lines, jobs, invoice, chosen,
  insight, admitted, admissions, calls, creating, posted, job, work, notices,
  forgotten, doubtful,
  asset, life, form, moving,
  setting, revisions, view, change,
  day, promotion, shelfView, unbilled, quote, bill,
  date, register, sale, closing,
  clock, bar, dish, visit, line, ticket

Keys == INSTANCE Idempotency
Floor == INSTANCE Reservations
Stock == INSTANCE StockRoom
Login == INSTANCE AuthSessions
Staff == INSTANCE Access
Counter == INSTANCE Takeaway
Notices == INSTANCE TelegramNotices
Card == INSTANCE Menu
Paper == INSTANCE Printing
Analyst == INSTANCE Insights
Tools == INSTANCE Equipment
Config == INSTANCE SystemSettings
Prices == INSTANCE Pricing
Books == INSTANCE DailyClose
Kitchen == INSTANCE KitchenStations

keyVars == <<keyRow, keyHolder, keyCall, keyEffects, keyKept, keyPurged>>
floorVars == <<now, table, asked, booking, edit>>
stockVars == <<item, ledger, shelf, missing, cameBack, moves, stocktake,
               receipt, reviewed, supplier>>
loginVars == <<employee, family, live, issued, ended, overlapped, rotating,
               reused, signingIn, admin, resetToken, missed>>
staffVars == <<staff, role, position, request>>
counterVars == <<hours, pickup, cups, opinion>>
noticeVars == <<order, drink, chat, linkToken, readyQueued, windowOpen, event,
                handler, ack, told, unlucky>>
cardVars == <<category, menuItem, screen, picture, uploading, late, cleaning,
              bucket>>
paperVars == <<device, station, lines, jobs, invoice, chosen>>
analystVars == <<insight, admitted, admissions, calls, creating, posted, job,
                 work, notices, forgotten, doubtful>>
toolVars == <<asset, life, form, moving>>
configVars == <<setting, revisions, view, change>>
priceVars == <<day, promotion, shelfView, unbilled, quote, bill>>
bookVars == <<date, register, sale, closing>>
kitchenVars == <<clock, bar, dish, visit, line, ticket>>
vars == <<on, keyVars, floorVars, stockVars, loginVars, staffVars, counterVars,
          noticeVars, cardVars, paperVars, analystVars, toolVars, configVars,
          priceVars, bookVars, kitchenVars>>

\* The variables of a service that does not move.
Off == "off"
KeysOff ==
  /\ keyRow = Off /\ keyHolder = Off /\ keyCall = Off /\ keyEffects = Off
  /\ keyKept = Off /\ keyPurged = Off
FloorOff ==
  /\ now = Off /\ table = Off /\ asked = Off /\ booking = Off /\ edit = Off
StockOff ==
  /\ item = Off /\ ledger = Off /\ shelf = Off /\ missing = Off
  /\ cameBack = Off /\ moves = Off /\ stocktake = Off /\ receipt = Off
  /\ reviewed = Off /\ supplier = Off
LoginOff ==
  /\ employee = Off /\ family = Off /\ live = Off /\ issued = Off /\ ended = Off
  /\ overlapped = Off /\ rotating = Off /\ reused = Off /\ signingIn = Off
  /\ admin = Off /\ resetToken = Off /\ missed = Off
StaffOff ==
  /\ staff = Off /\ role = Off /\ position = Off /\ request = Off
CounterOff ==
  /\ hours = Off /\ pickup = Off /\ cups = Off /\ opinion = Off
NoticesOff ==
  /\ order = Off /\ drink = Off /\ chat = Off /\ linkToken = Off
  /\ readyQueued = Off /\ windowOpen = Off /\ event = Off /\ handler = Off
  /\ ack = Off /\ told = Off /\ unlucky = Off
CardOff ==
  /\ category = Off /\ menuItem = Off /\ screen = Off /\ picture = Off
  /\ uploading = Off /\ late = Off /\ cleaning = Off /\ bucket = Off
PaperOff ==
  /\ device = Off /\ station = Off /\ lines = Off /\ jobs = Off /\ invoice = Off
  /\ chosen = Off
AnalystOff ==
  /\ insight = Off /\ admitted = Off /\ admissions = Off /\ calls = Off
  /\ creating = Off /\ posted = Off /\ job = Off /\ work = Off /\ notices = Off
  /\ forgotten = Off /\ doubtful = Off
ToolsOff ==
  /\ asset = Off /\ life = Off /\ form = Off /\ moving = Off
ConfigOff ==
  /\ setting = Off /\ revisions = Off /\ view = Off /\ change = Off
PricesOff ==
  /\ day = Off /\ promotion = Off /\ shelfView = Off /\ unbilled = Off
  /\ quote = Off /\ bill = Off
BooksOff ==
  /\ date = Off /\ register = Off /\ sale = Off /\ closing = Off
KitchenOff ==
  /\ clock = Off /\ bar = Off /\ dish = Off /\ visit = Off /\ line = Off
  /\ ticket = Off

Init ==
  /\ on \in {"keys", "floor", "stock", "login", "staff", "counter", "notices",
             "card", "paper", "analyst", "tools", "config", "prices", "books",
             "kitchen"}
  /\ IF on = "keys" THEN Keys!Init ELSE KeysOff
  /\ IF on = "floor" THEN Floor!Init ELSE FloorOff
  /\ IF on = "stock" THEN Stock!Init ELSE StockOff
  /\ IF on = "login" THEN Login!Init ELSE LoginOff
  /\ IF on = "staff" THEN Staff!Init ELSE StaffOff
  /\ IF on = "counter" THEN Counter!Init ELSE CounterOff
  /\ IF on = "notices" THEN Notices!Init ELSE NoticesOff
  /\ IF on = "card" THEN Card!Init ELSE CardOff
  /\ IF on = "paper" THEN Paper!Init ELSE PaperOff
  /\ IF on = "analyst" THEN Analyst!Init ELSE AnalystOff
  /\ IF on = "tools" THEN Tools!Init ELSE ToolsOff
  /\ IF on = "config" THEN Config!Init ELSE ConfigOff
  /\ IF on = "prices" THEN Prices!Init ELSE PricesOff
  /\ IF on = "books" THEN Books!Init ELSE BooksOff
  /\ IF on = "kitchen" THEN Kitchen!Init ELSE KitchenOff

KeysStep ==
  /\ on = "keys" /\ Keys!Next
  /\ UNCHANGED <<on, floorVars, stockVars, loginVars, staffVars,
                 counterVars, noticeVars, cardVars, paperVars, analystVars,
                 toolVars, configVars, priceVars, bookVars, kitchenVars>>
FloorStep ==
  /\ on = "floor" /\ Floor!Next
  /\ UNCHANGED <<on, keyVars, stockVars, loginVars, staffVars, counterVars,
                 noticeVars, cardVars, paperVars, analystVars, toolVars,
                 configVars, priceVars, bookVars, kitchenVars>>
StockStep ==
  /\ on = "stock" /\ Stock!Next
  /\ UNCHANGED <<on, keyVars, floorVars, loginVars, staffVars, counterVars,
                 noticeVars, cardVars, paperVars, analystVars, toolVars,
                 configVars, priceVars, bookVars, kitchenVars>>
LoginStep ==
  /\ on = "login" /\ Login!Next
  /\ UNCHANGED <<on, keyVars, floorVars, stockVars, staffVars, counterVars,
                 noticeVars, cardVars, paperVars, analystVars, toolVars,
                 configVars, priceVars, bookVars, kitchenVars>>
StaffStep ==
  /\ on = "staff" /\ Staff!Next
  /\ UNCHANGED <<on, keyVars, floorVars, stockVars, loginVars, counterVars,
                 noticeVars, cardVars, paperVars, analystVars, toolVars,
                 configVars, priceVars, bookVars, kitchenVars>>
CounterStep ==
  /\ on = "counter" /\ Counter!Next
  /\ UNCHANGED <<on, keyVars, floorVars, stockVars, loginVars, staffVars,
                 noticeVars, cardVars, paperVars, analystVars, toolVars,
                 configVars, priceVars, bookVars, kitchenVars>>
NoticesStep ==
  /\ on = "notices" /\ Notices!Next
  /\ UNCHANGED <<on, keyVars, floorVars, stockVars, loginVars, staffVars,
                 counterVars, cardVars, paperVars, analystVars, toolVars,
                 configVars, priceVars, bookVars, kitchenVars>>
CardStep ==
  /\ on = "card" /\ Card!Next
  /\ UNCHANGED <<on, keyVars, floorVars, stockVars, loginVars, staffVars,
                 counterVars, noticeVars, paperVars, analystVars, toolVars,
                 configVars, priceVars, bookVars, kitchenVars>>
PaperStep ==
  /\ on = "paper" /\ Paper!Next
  /\ UNCHANGED <<on, keyVars, floorVars, stockVars, loginVars, staffVars,
                 counterVars, noticeVars, cardVars, analystVars, toolVars,
                 configVars, priceVars, bookVars, kitchenVars>>
AnalystStep ==
  /\ on = "analyst" /\ Analyst!Next
  /\ UNCHANGED <<on, keyVars, floorVars, stockVars, loginVars, staffVars,
                 counterVars, noticeVars, cardVars, paperVars, toolVars,
                 configVars, priceVars, bookVars, kitchenVars>>
ToolsStep ==
  /\ on = "tools" /\ Tools!Next
  /\ UNCHANGED <<on, keyVars, floorVars, stockVars, loginVars, staffVars,
                 counterVars, noticeVars, cardVars, paperVars, analystVars,
                 configVars, priceVars, bookVars, kitchenVars>>
ConfigStep ==
  /\ on = "config" /\ Config!Next
  /\ UNCHANGED <<on, keyVars, floorVars, stockVars, loginVars, staffVars,
                 counterVars, noticeVars, cardVars, paperVars, analystVars,
                 toolVars, priceVars, bookVars, kitchenVars>>
PricesStep ==
  /\ on = "prices" /\ Prices!Next
  /\ UNCHANGED <<on, keyVars, floorVars, stockVars, loginVars, staffVars,
                 counterVars, noticeVars, cardVars, paperVars, analystVars,
                 toolVars, configVars, bookVars, kitchenVars>>
BooksStep ==
  /\ on = "books" /\ Books!Next
  /\ UNCHANGED <<on, keyVars, floorVars, stockVars, loginVars, staffVars,
                 counterVars, noticeVars, cardVars, paperVars, analystVars,
                 toolVars, configVars, priceVars, kitchenVars>>
KitchenStep ==
  /\ on = "kitchen" /\ Kitchen!Next
  /\ UNCHANGED <<on, keyVars, floorVars, stockVars, loginVars, staffVars,
                 counterVars, noticeVars, cardVars, paperVars, analystVars,
                 toolVars, configVars, priceVars, bookVars>>

Next ==
  \/ KeysStep \/ FloorStep \/ StockStep \/ LoginStep \/ StaffStep
  \/ CounterStep \/ NoticesStep \/ CardStep \/ PaperStep \/ AnalystStep
  \/ ToolsStep \/ ConfigStep \/ PricesStep \/ BooksStep \/ KitchenStep

Spec == Init /\ [][Next]_vars

-----------------------------------------------------------------------------
(* Properties: those of the services, each for the behaviours of its own.  *)

\* The requests that carry one idempotency key have the effect of the
\* operation once, however they overlap, fail and are repeated.
EffectOncePerKey == on = "keys" => Keys!EffectOncePerKey

\* No two reservations that stand hold one table at one time, a reservation
\* comes from the request that was approved for it, and a row two screens
\* edit is never a mixture of the two.
BookingsHonoured == on = "floor" => Floor!BookingsHonoured

\* Stock, ledger and shelf agree, whatever counts and receipts are posted.
StockAccounted == on = "stock" => Stock!StockAccounted

\* A session that can be refreshed was opened with a credential still in force.
SessionsEntitled == on = "login" => Login!SessionsEntitled

\* Someone can still administer the shop, and a working employee has a
\* position that exists.
AccessSound == on = "staff" => Staff!AccessSound

\* A customer who linked a chat is told what the order's state owes them.
CustomerIsTold == on = "notices" => Notices!CustomerIsTold

\* The menu serves the pictures it shows and loses track of none.
MenuSound == on = "card" => Card!MenuSound

\* Whatever an agent printed is accounted for by a job, once.
PaperIsAccounted == on = "paper" => Paper!PaperIsAccounted

\* The papers and the screens of the kitchen say what the order lines say,
\* and what is still to be made waits where someone works.
KitchenInformed ==
  /\ on = "paper" => Paper!KitchenPaperTrue
  /\ on = "kitchen" => Kitchen!KitchenSeesWork

\* The paid provider is asked once for an insight, and every insight is decided.
InsightsTrue == on = "analyst" => Analyst!InsightsTrue

\* What the records of the shop say is how it was: the life of a piece of
\* equipment, the revisions of a setting, what an invoice charged and why,
\* the figures of a closed day.
RecordsTrue ==
  /\ on = "tools" => Tools!LifeIsTold
  /\ on = "config" => Config!RevisionsTellAll
  /\ on = "prices" => Prices!ChargedAsPromised
  /\ on = "books" => Books!ClosedDayStands

\* What was settled is not undone by a later step: a decision on a
\* reservation, a posted or cancelled stock document, a revoked session, the
\* limits of a grant, a dead pickup code, an edit nobody else has seen, the
\* outcome of an insight, a liquidation, a published promotion.
NothingSilentlyUndone ==
  [][CASE on = "floor" -> Floor!DecisionsFinal
       [] on = "stock" -> Stock!DocumentsFinal
       [] on = "login" -> Login!RevocationsFinal
       [] on = "staff" -> Staff!AccessIsGranted
       [] on = "counter" -> Counter!CodesStayDead
       [] on = "card" -> Card!EditsSeen
       [] on = "analyst" -> Analyst!OutcomesFinal
       [] on = "tools" -> Tools!LiquidatedIsFinal
       [] on = "config" -> Config!ChangesSeen
       [] on = "prices" -> Prices!PublishedKnowingly
       [] OTHER -> TRUE]_vars
=============================================================================
