-------------------------------- MODULE Minter --------------------------------
(***************************************************************************)
(* How an agent comes by its NFT: NewEnhancedAgent and the OpenAI agent's  *)
(* NewSimpleOpenAIAgent (pkg/agent), NFTMinter.MintAgent (pkg/nft).  The   *)
(* back end, the Ethereum node and the contract are the environment; other *)
(* wallets mint from the same contract meanwhile.                          *)
(*                                                                         *)
(* A token is its position in the contract's sequence.  No token, an unset *)
(* or empty variable, is 0; a value that is no number is Garbage.          *)
(***************************************************************************)
EXTENDS Integers, Sequences

CONSTANTS
  MaxTokens,   \* bound on the tokens ever minted
  HasNode      \* an RPC endpoint is configured

ASSUME MinterAssumption == MaxTokens \in Nat \ {0} /\ HasNode \in BOOLEAN

VARIABLES
  owners,      \* the contract: who has minted each token
  env,         \* NFT_TOKEN_ID in the environment of the process
  tokenID,     \* config.TokenID of the launch
  launch,      \* where NewEnhancedAgent or MintAgent is
  mined        \* the token in the receipt of the launch's transaction, or 0

mintVars == <<owners, env, tokenID, launch, mined>>

Garbage == -1
Token == 1..MaxTokens
OurTokens == {t \in 1..Len(owners) : owners[t] = "us"}

MinterTypeOK ==
  /\ owners \in Seq({"us", "others"}) /\ Len(owners) <= MaxTokens
  /\ env \in Token \cup {0, Garbage}
  /\ tokenID \in Token \cup {0} /\ mined \in Token \cup {0}
  /\ launch \in {"none", "config", "upload", "nonce", "signature", "prepare", "send",
                 "wait", "receipt", "made"}

\* The operator may have set the variable to a token of ours, or wrongly.
MinterInit ==
  /\ \/ owners = <<>> /\ env \in {0, Garbage}
     \/ owners = <<"us">> /\ env \in {0, 1, Garbage}
  /\ tokenID = 0 /\ launch = "none" /\ mined = 0

-----------------------------------------------------------------------------
Fail == launch' = "none" /\ tokenID' = 0 /\ mined' = 0 /\ UNCHANGED <<owners, env>>

\* A step of MintAgent: on to the next one, or NewEnhancedAgent returns an error.
MintStep(from, to) ==
  /\ launch = from
  /\ \/ launch' = to /\ UNCHANGED <<owners, env, tokenID, mined>>
     \/ Fail

\* NewEnhancedAgent, up to the first request: the minter cannot be made without
\* its node; an existing token comes from the configuration or the environment,
\* and sending its hash to the back end is not implemented.
NewEnhancedAgent(mint, given) ==
  /\ launch = "none"
  /\ \/ Fail
     \/ /\ mint
        /\ launch' = "config" /\ tokenID' = given
     \/ /\ ~mint
        /\ tokenID' = IF given # 0 THEN given ELSE env
        /\ tokenID' \notin {0, Garbage}
        /\ launch' = "made"
  /\ UNCHANGED <<owners, env, mined>>

\* NewSimpleOpenAIAgent: without a token and not told to mint, it takes the
\* token of the environment, and mints if there is none or no number.
NewSimpleOpenAIAgent(mint, given) ==
  LET token == IF given = 0 /\ ~mint /\ env > 0 THEN env ELSE given
  IN  NewEnhancedAgent(mint \/ token = 0, token)

\* getContractConfig: transport, status, HTML, JSON; then the chain ID.
GetContractConfig == MintStep("config", "upload")

\* uploadMetadataToIPFS: the status is not looked at, success is.
UploadMetadata == MintStep("upload", "nonce")

\* getNonce takes 0 for granted if there is no node.
GetNonce ==
  IF HasNode THEN MintStep("nonce", "signature")
  ELSE /\ launch = "nonce" /\ launch' = "signature"
       /\ UNCHANGED <<owners, env, tokenID, mined>>

\* requestMintSignature: status, HTML, JSON, an empty signature.
RequestMintSignature == MintStep("signature", "prepare")

\* executeMint up to the signed transaction.
PrepareMint ==
  IF HasNode THEN MintStep("prepare", "send")
  ELSE launch = "prepare" /\ Fail

\* Sending may fail although the node has taken the transaction: the token is
\* one that no launch knows of.
SendTransaction ==
  \/ MintStep("send", "wait")
  \/ /\ launch = "send" /\ Len(owners) < MaxTokens
     /\ owners' = Append(owners, "us")
     /\ launch' = "none" /\ tokenID' = 0
     /\ UNCHANGED <<env, mined>>

\* WaitForTransaction waits as long as it takes.  The transaction mints a token,
\* or does something else (the address was not the contract's), or is reverted.
WaitForTransaction ==
  /\ launch = "wait"
  /\ \/ /\ Len(owners) < MaxTokens
        /\ owners' = Append(owners, "us")
        /\ mined' = Len(owners')
        /\ launch' = "receipt" /\ UNCHANGED <<env, tokenID>>
     \/ launch' = "receipt" /\ UNCHANGED <<owners, env, tokenID, mined>>
     \/ Fail

OthersMint ==
  /\ launch \in {"wait", "receipt"} /\ Len(owners) < MaxTokens
  /\ owners' = Append(owners, "others")
  /\ UNCHANGED <<env, tokenID, launch, mined>>

\* Mutant: the newest token of the contract instead of the receipt's.
TakeNewestToken ==
  /\ launch = "receipt" /\ Len(owners) > 0
  /\ launch' = "made"
  /\ tokenID' = Len(owners) /\ env' = Len(owners)
  /\ UNCHANGED <<owners, mined>>

\* The token of the contract's Transfer event in the receipt, which becomes
\* NFT_TOKEN_ID in the environment of the process; without one it is an error.
TakeToken ==
  /\ launch = "receipt"
  /\ IF mined = 0 THEN Fail
     ELSE /\ launch' = "made"
          /\ tokenID' = mined /\ env' = mined
          /\ UNCHANGED <<owners, mined>>

MintAgent ==
  \/ GetContractConfig \/ UploadMetadata \/ GetNonce \/ RequestMintSignature
  \/ PrepareMint \/ SendTransaction \/ WaitForTransaction \/ TakeToken

\* An agent of either kind is made.
Launch ==
  \E mint \in BOOLEAN, given \in OurTokens \cup {0} :
     \/ NewEnhancedAgent(mint, given)
     \/ NewSimpleOpenAIAgent(mint, given)

MinterNext == Launch \/ MintAgent \/ OthersMint

MinterSpec == MinterInit /\ [][MinterNext]_mintVars

-----------------------------------------------------------------------------
\* The token an agent is made with is one its own wallet has minted, whoever
\* mints at the same time and however the launches before it have failed.
TokenIsOurs == launch = "made" => tokenID \in OurTokens
=============================================================================
