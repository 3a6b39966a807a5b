----------------------------- MODULE Components -----------------------------
(***************************************************************************)
(* The components that stand alone, side by side.  No two share a variable *)
(* but the contracts, which read the clock of one chain; a step of one     *)
(* leaves the others as they are, and time passes for both contracts.      *)
(***************************************************************************)
EXTENDS StakeManager, ResumeRegistry, AuditJobQueue, AuditStore, TenantRegistry,
        SiemStreamer, Analytics, Wallet, WebApp, AgentNetwork

\* AuditStore holds the page, and the audits of AuditPipeline it starts and reads.
ComponentNames ==
  {"StakeManager", "ResumeRegistry", "AuditJobQueue", "AuditPipeline", "AuditStore", "Forta",
   "TenantRegistry", "SiemStreamer", "Analytics", "Wallet", "WebApp", "AgentNetwork"}

stakeOwnVars == <<balance, requests, etherHeld, tokenVars, activeAgents, lastUnstake>>
resumeOwnVars == <<recordVars, updateVars>>
storeVars == <<pipelineVars, auditStoreVars>>
onChainVars == <<stakeVars, resumeVars, queueVars>>
offChainVars == <<storeVars, botVars, tenantVars, streamerVars, analyticsVars, walletVars,
                  webVars, networkVars>>
componentVars == <<onChainVars, offChainVars>>

ComponentsInit ==
  /\ StakeInit /\ ResumeInit /\ QueueInit
  /\ PipelineInit /\ StoreInit /\ BotInit
  /\ TenantInit /\ StreamerInit /\ AnalyticsInit
  /\ WalletInit /\ WebInit /\ NetworkInit

OnChain(c) ==
  /\ \/ c = "StakeManager" /\ StakeNext /\ UNCHANGED <<resumeOwnVars, queueVars>>
     \/ c = "ResumeRegistry" /\ ResumeNext /\ UNCHANGED <<stakeOwnVars, queueVars>>
     \/ c = "AuditJobQueue" /\ QueueNext /\ UNCHANGED <<stakeVars, resumeVars>>
  /\ UNCHANGED offChainVars

OffChain(c) ==
  /\ \/ /\ \/ c = "AuditPipeline" /\ AuditNext /\ UNCHANGED auditStoreVars
           \/ c = "AuditStore" /\ ServerNext
        /\ UNCHANGED <<botVars, tenantVars, streamerVars, analyticsVars, walletVars, webVars,
                       networkVars>>
     \/ /\ c = "Forta" /\ BotNext
        /\ UNCHANGED <<storeVars, tenantVars, streamerVars, analyticsVars, walletVars, webVars,
                       networkVars>>
     \/ /\ c = "TenantRegistry" /\ TenantNext
        /\ UNCHANGED <<storeVars, botVars, streamerVars, analyticsVars, walletVars, webVars,
                       networkVars>>
     \/ /\ c = "SiemStreamer" /\ StreamerNext
        /\ UNCHANGED <<storeVars, botVars, tenantVars, analyticsVars, walletVars, webVars,
                       networkVars>>
     \/ /\ c = "Analytics" /\ AnalyticsNext
        /\ UNCHANGED <<storeVars, botVars, tenantVars, streamerVars, walletVars, webVars,
                       networkVars>>
     \/ /\ c = "Wallet" /\ WalletNext
        /\ UNCHANGED <<storeVars, botVars, tenantVars, streamerVars, analyticsVars, webVars,
                       networkVars>>
     \/ /\ c = "WebApp" /\ WebNext
        /\ UNCHANGED <<storeVars, botVars, tenantVars, streamerVars, analyticsVars, walletVars,
                       networkVars>>
     \/ /\ c = "AgentNetwork" /\ NetworkNext
        /\ UNCHANGED <<storeVars, botVars, tenantVars, streamerVars, analyticsVars, walletVars,
                       webVars>>
  /\ UNCHANGED onChainVars

\* A step of component c.
StepOf(c) == OnChain(c) \/ OffChain(c)

ComponentsNext == \E c \in ComponentNames : StepOf(c)

ComponentsSpec == ComponentsInit /\ [][ComponentsNext]_componentVars

\* Each component's variables keep their types, in whatever order the components
\* step and whichever of the two contracts the clock advances under.
ComponentsTypeOK ==
  /\ StakeTypeOK /\ ResumeTypeOK /\ QueueTypeOK
  /\ PipelineTypeOK /\ StoreTypeOK /\ BotTypeOK
  /\ TenantTypeOK /\ StreamerTypeOK /\ AnalyticsTypeOK
  /\ WalletTypeOK /\ WebTypeOK /\ NetworkTypeOK
=============================================================================
