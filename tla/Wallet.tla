-------------------------------- MODULE Wallet --------------------------------
(***************************************************************************)
(* dashboard/src/store/useWalletStore.ts and lib/wallet.ts: the wallet the *)
(* page shows, while the browser's wallet (window.ethereum, external) is   *)
(* switched, locked or asked for leave.  connectWallet() asks three times; *)
(* the wallet and the page may change between the answers, and nothing     *)
(* cancels a call.                                                         *)
(***************************************************************************)
EXTENDS Integers, FiniteSets

CONSTANTS
  WalletCalls,   \* calls of connectWallet(); one that is over stands for a next one
  WalletAccounts,
  NoAccount,     \* no account has given leave
  Chains

ASSUME WalletConstants == NoAccount \notin WalletAccounts

VARIABLES
  provider,     \* the browser's wallet: [account, chain]
  asked,        \* call -> "idle" or the request it waits for
  answers,      \* call -> [address, chain], as far as answered
  byButton,     \* call -> is it connect()'s?
  wallet,       \* the store's wallet: [address, chain], or nothing
  connecting,   \* the store's flag
  mounted       \* has initListeners() run, and the accounts been asked for?

walletVars == <<provider, asked, answers, byButton, wallet, connecting, mounted>>

\* WalletInfo, of which the name and the balance are left out.
Wallets == [account : WalletAccounts \cup {NoAccount}, chain : Chains]

WalletInit ==
  /\ provider \in Wallets
  /\ asked = [c \in WalletCalls |-> "idle"]
  /\ answers = [c \in WalletCalls |-> provider]
  /\ byButton = [c \in WalletCalls |-> FALSE]
  /\ wallet = {}
  /\ connecting = FALSE
  /\ mounted = FALSE

\* connectWallet() is called, by connect() or by a listener.
Call(button) ==
  \E c \in WalletCalls :
    /\ asked[c] = "idle"
    /\ asked' = [asked EXCEPT ![c] = "accounts"]
    /\ byButton' = [byButton EXCEPT ![c] = button]

NoCall == UNCHANGED <<asked, byButton>>

\* initListeners(), when the page is loaded: eth_accounts tells of an account
\* that has given leave before.
InitListeners ==
  /\ ~mounted
  /\ mounted' = TRUE
  /\ IF provider.account = NoAccount THEN NoCall ELSE Call(FALSE)
  /\ UNCHANGED <<provider, answers, wallet, connecting>>

\* What ProtectedRoute shows: it sends a visitor without a wallet to the landing page,
\* which PublicRoute leaves as soon as there is one.
ProtectedPage ==
  IF connecting THEN "spinner" ELSE IF wallet = {} THEN "landing" ELSE "dashboard"

\* The buttons of the landing page.
ConnectOffered == ~connecting /\ wallet = {}

\* connect()
ConnectWallet ==
  /\ mounted /\ ConnectOffered
  /\ connecting' = TRUE
  /\ Call(TRUE)
  /\ UNCHANGED <<provider, answers, wallet, mounted>>

\* disconnect(), a button of the dashboard: calls under way go on.
DisconnectWallet ==
  /\ ProtectedPage = "dashboard"
  /\ wallet' = {}
  /\ UNCHANGED <<provider, asked, answers, byButton, connecting, mounted>>

\* eth_requestAccounts: the first account with leave; without one the user is
\* asked, and the wallet tells the page of the account as well.
AccountsAnswered(c) ==
  /\ asked[c] = "accounts"
  /\ \E a \in WalletAccounts :
       /\ provider.account \in {a, NoAccount}
       /\ answers' = [answers EXCEPT ![c].account = a]
       /\ provider' = [provider EXCEPT !.account = a]
  /\ asked' = [asked EXCEPT ![c] = "chain"]
  /\ UNCHANGED <<byButton, wallet, connecting, mounted>>

\* eth_chainId
ChainAnswered(c) ==
  /\ asked[c] = "chain"
  /\ answers' = [answers EXCEPT ![c].chain = provider.chain]
  /\ asked' = [asked EXCEPT ![c] = "balance"]
  /\ UNCHANGED <<provider, byButton, wallet, connecting, mounted>>

\* The flag after a call; the mutation forgets the one that failed.
OnlyIfAnswered(c, answered) == connecting /\ ~(answered /\ byButton[c])
FlagAfter(c, answered) == connecting /\ ~byButton[c]

\* eth_getBalance, whose failure is swallowed; the store takes what was answered,
\* whatever has become of the wallet meanwhile.
BalanceAnswered(c) ==
  /\ asked[c] = "balance"
  /\ asked' = [asked EXCEPT ![c] = "idle"]
  /\ wallet' = {answers[c]}
  /\ connecting' = FlagAfter(c, TRUE)
  /\ UNCHANGED <<provider, answers, byButton, mounted>>

\* The user refuses, or a request fails.
CallFails(c) ==
  /\ asked[c] \in {"accounts", "chain"}
  /\ asked' = [asked EXCEPT ![c] = "idle"]
  /\ connecting' = FlagAfter(c, FALSE)
  /\ UNCHANGED <<provider, answers, byButton, wallet, mounted>>

\* The wallet is switched to an account, or takes its leave back; the listener of
\* accountsChanged drops the page's wallet or calls connectWallet().
AccountsChanged(a) ==
  /\ mounted /\ provider.account # a
  /\ provider' = [provider EXCEPT !.account = a]
  /\ \/ a = NoAccount /\ wallet' = {} /\ NoCall
     \/ a # NoAccount /\ Call(FALSE) /\ UNCHANGED wallet
  /\ UNCHANGED <<answers, connecting, mounted>>

\* The wallet is switched to a chain.  The page listens for `chainChange', an event
\* no wallet sends (it is called chainChanged), so that nothing happens.
ChainChanged(x) ==
  /\ mounted /\ provider.chain # x
  /\ provider' = [provider EXCEPT !.chain = x]
  /\ UNCHANGED <<asked, answers, byButton, wallet, connecting, mounted>>

WalletNext ==
  \/ InitListeners \/ ConnectWallet \/ DisconnectWallet
  \/ \E c \in WalletCalls :
       AccountsAnswered(c) \/ ChainAnswered(c) \/ BalanceAnswered(c) \/ CallFails(c)
  \/ \E a \in WalletAccounts \cup {NoAccount} : AccountsChanged(a)
  \/ \E x \in Chains : ChainChanged(x)

WalletSpec == WalletInit /\ [][WalletNext]_walletVars

----------------------------------------------------------------------------

WalletTypeOK ==
  /\ provider \in Wallets
  /\ asked \in [WalletCalls -> {"idle", "accounts", "chain", "balance"}]
  /\ answers \in [WalletCalls -> Wallets]
  /\ byButton \in [WalletCalls -> BOOLEAN]
  /\ wallet \subseteq Wallets /\ Cardinality(wallet) <= 1
  /\ connecting \in BOOLEAN /\ mounted \in BOOLEAN

\* The page that says `Connecting wallet' waits for exactly one call of connect(),
\* though calls of the listeners come and go meanwhile, and what it shows at any
\* time names an account.
ConnectingHasCall ==
  /\ connecting <=> \E c \in WalletCalls : asked[c] # "idle" /\ byButton[c]
  /\ \A c, d \in WalletCalls :
       asked[c] # "idle" /\ asked[d] # "idle" /\ byButton[c] /\ byButton[d] => c = d
  /\ \A w \in wallet : w.account # NoAccount
=============================================================================
