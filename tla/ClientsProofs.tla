---------------------------- MODULE ClientsProofs ----------------------------
(***************************************************************************)
(* The specification that the run MCClients checks is a choice among the   *)
(* seven clients.  It implements the specification of each: a step is one  *)
(* of that client's or leaves its variables alone.  So every theorem about *)
(* a client holds of the whole, whichever clients and bounds are chosen.   *)
(***************************************************************************)
EXTENDS MCClients, VerifyPagesProofs, SessionClientsProofs, DashboardProofs

(* The clients' verification pages, wherever the other clients are.        *)
THEOREM ClientsImplementPage == Spec => SpecPage
<1>1. Init => InitPage
  BY DEF Init
<1>2. [Next]_vars => [NextPage]_varsPage
  BY DEF Next, vars, Page, Chip, Widget, Store, Scanner, Country, Account
<1>. QED BY <1>1, <1>2, PTL DEF Spec, SpecPage

(* The chip, the taps and their reads.                                     *)
THEOREM ClientsImplementChip == Spec => SpecChip
<1>1. Init => InitChip
  BY DEF Init
<1>2. [Next]_vars => [NextChip]_varsChip
  BY DEF Next, vars, Page, Chip, Widget, Store, Scanner, Country, Account
<1>. QED BY <1>1, <1>2, PTL DEF Spec, SpecChip

(* The widget, its sessions and phones.                                    *)
THEOREM ClientsImplementWidget == Spec => SpecWidget
<1>1. Init => InitWidget
  BY DEF Init
<1>2. [Next]_vars => [NextWidget]_varsWidget
  BY DEF Next, vars, Page, Chip, Widget, Store, Scanner, Country, Account
<1>. QED BY <1>1, <1>2, PTL DEF Spec, SpecWidget

(* The session store, the phone's page and the desktop's poll.             *)
THEOREM ClientsImplementStore == Spec => SpecStore
<1>1. Init => InitStore
  BY DEF Init
<1>2. [Next]_vars => [NextStore]_varsStore
  BY DEF Next, vars, Page, Chip, Widget, Store, Scanner, Country, Account
<1>. QED BY <1>1, <1>2, PTL DEF Spec, SpecStore

(* The scanner app.                                                        *)
THEOREM ClientsImplementScanner == Spec => SpecScanner
<1>1. Init => InitScanner
  BY DEF Init
<1>2. [Next]_vars => [NextScanner]_varsScanner
  BY DEF Next, vars, Page, Chip, Widget, Store, Scanner, Country, Account
<1>. QED BY <1>1, <1>2, PTL DEF Spec, SpecScanner

(* The country page, its builds and its updates.                           *)
THEOREM ClientsImplementCountry == Spec => SpecCountry
<1>1. Init => InitCountry
  BY DEF Init
<1>2. [Next]_vars => [NextCountry]_varsCountry
  BY DEF Next, vars, Page, Chip, Widget, Store, Scanner, Country, Account
<1>. QED BY <1>1, <1>2, PTL DEF Spec, SpecCountry

(* Accounts, keys and the dashboard's tabs.                                *)
THEOREM ClientsImplementAccount == Spec => SpecDash
<1>1. Init => InitDash
  BY DEF Init
<1>2. [Next]_vars => [NextDash]_varsDash
  BY DEF Next, vars, Page, Chip, Widget, Store, Scanner, Country, Account
<1>. QED BY <1>1, <1>2, PTL DEF Spec, SpecDash

-----------------------------------------------------------------------------
(* All variables of all clients keep their types.                          *)
THEOREM ClientTypes == Spec => []TypeOK
<1>1. IInvCountry => TypeOKCountry
  BY DEF IInvCountry, TypesCountry
<1>2. TypeOK <=> /\ TypeOKPage /\ TypeOKChip /\ TypeOKWidget /\ TypeOKStore
                 /\ TypeOKScanner /\ TypeOKCountry /\ TypeOKDash
  BY DEF TypeOK
<1>. QED BY <1>1, <1>2, ClientsImplementPage, ClientsImplementChip, ClientsImplementWidget,
            ClientsImplementStore, ClientsImplementScanner, ClientsImplementCountry,
            ClientsImplementAccount, PageTypeCorrect, ChipTypeCorrect, WidgetTypes,
            StoreTypes, ScannerTypeCorrect, CountryInvariant, AccountTypeCorrect, PTL

(* Every safety invariant that the run checks holds of the whole.          *)
THEOREM ClientInvariants ==
    Spec => /\ []NothingLeftRunning /\ []VerifiedWasAccepted /\ []AcceptedButError
            /\ []UndisturbedReadIsWhole
            /\ []OneTrueResult /\ []FailedThoughAccepted
            /\ []OneScanUnlessReplaced /\ []ResultWasAnswered
            /\ []RootIsOfTheSelection
            /\ []AccountMatchesChain /\ []StoredKeyWorks
BY ClientsImplementPage, PageLeavesNothingRunning, PageVerifiedWasAccepted,
   PageAcceptedButError, ClientsImplementChip, ChipReadIsWhole,
   ClientsImplementWidget, ResultsAreTrue, FailuresAreLosses,
   ClientsImplementScanner, ScannerOneScan, ScannerResultWasAnswered,
   ClientsImplementCountry, TreeIsOfTheSelection,
   ClientsImplementAccount, AccountIsOnChain, AccountKeyWorks, PTL

(* And so do the two action properties: of the session store, where a      *)
(* status goes back only by a race, and of the keys in localStorage.       *)
THEOREM ClientSteps == Spec => GoesBackOnlyByRace /\ WorkingKeyDropped
BY ClientsImplementStore, BackwardPatchesAreRaces, ClientsImplementAccount,
   AccountDropsNoWorkingKey
(* Under the run's fairness, a proof that was asked for on the page ends.  *)
THEOREM ClientAttemptsEnd == FairSpec /\ []ProvingEnabled => AttemptEnds
BY ClientsImplementPage, AttemptsEnd, PTL DEF FairSpec, FairPage
=============================================================================
