-------------------------------- MODULE Accounts --------------------------------
(***************************************************************************)
(* What the backend says about an account: explain/account.rs and the part *)
(* of services/horizon.rs it uses (packages/core/src).  When the name of   *)
(* the organisation is looked up, and how old it may be, is the concern of *)
(* module AccountLookup, and the account's history that of module Pages.   *)
(*                                                                         *)
(* Horizon's account is [balances, signers, flags, home_domain]: a         *)
(* sequence of [asset_type, balance], one of weights, a set of the names   *)
(* of flags, and "" for no domain.                                         *)
(***************************************************************************)
EXTENDS Explanation, FiniteSetsExt

-----------------------------------------------------------------------------

\* HorizonAccount::into_domain: a signer of weight zero is none.
IntoDomain(raw) ==
  [ num_signers |-> Cardinality(Positions(raw.signers, LAMBDA weight : weight > 0)),
    balances |-> raw.balances, flags |-> raw.flags,
    home_domain |-> IF raw.home_domain = "" THEN None ELSE raw.home_domain ]

IsNative(balance) == balance.asset_type = "native"

XlmBalance(account) ==
  LET native == Positions(account.balances, IsNative) IN
    IF native = {} THEN "0" ELSE account.balances[Min(native)].balance

\* Names that are empty or blank; one of each kind.
BlankNames == {"", " "}

OrgName(name) == IF name \in BlankNames THEN None ELSE name

\* The domain is named with the organisation, alone, or not at all.
Operator(home_domain, org_name) ==
  IF home_domain = None THEN <<>>
  ELSE IF org_name = None THEN <<home_domain>> ELSE <<org_name, home_domain>>

ExplainAccount(account, name) ==
  LET asset_count == Cardinality(Positions(account.balances, LAMBDA line : ~IsNative(line)))
      org_name == OrgName(name) IN
    [ xlm_balance |-> XlmBalance(account), asset_count |-> asset_count,
      signer_count |-> account.num_signers, home_domain |-> account.home_domain,
      org_name |-> org_name, flag_descriptions |-> account.flags,
      summary |-> <<XlmBalance(account), asset_count, account.num_signers>>
                  \o Operator(account.home_domain, org_name) ]
=============================================================================
