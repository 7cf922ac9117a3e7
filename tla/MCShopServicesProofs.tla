------------------------ MODULE MCShopServicesProofs ------------------------
(***************************************************************************)
(* The services side by side: in MCShopServices each of them behaves by    *)
(* its own specification, so that what is proved of it alone holds there,  *)
(* for any constants of the run.                                           *)
(***************************************************************************)
EXTENDS MCShopServices, ServicesProofs, CacheProofs, PaymentProofs

(* Theorem: a behaviour of the services is one of every service, and the   *)
(* part that is in focus hides no step of the others.                      *)
THEOREM PartsBehave ==
  ServicesSpec =>
    /\ NotifierSpec /\ MenuSpec /\ AdSpec /\ AddressSpec /\ PricingSpec /\ ConfigSpec
    /\ ReconciliationSpec /\ CustomersSpec /\ MatchSpec /\ EffectsSpec /\ DashboardSpec
    /\ PlanSpec
  <1>1. ServicesInit =>
          /\ NotifierInit /\ MenuInit /\ AdInit /\ AddressInit /\ PricingInit /\ ConfigInit
          /\ ReconciliationInit /\ CustomersInit /\ MatchInit /\ EffectsInit /\ DashboardInit
          /\ PlanInit
    BY DEF ServicesInit
  <1>2. [ServicesNext]_ServicesVars =>
          /\ [NotifierNext]_notifierVars /\ [MenuNext]_menuVars /\ [AdNext]_adVars
          /\ [AddressNext]_addressVars /\ [PricingNext]_pricingVars /\ [ConfigNext]_configVars
          /\ [ReconciliationNext]_reconciliationVars /\ [CustomersNext]_customerVars
          /\ [MatchNext]_matchVars /\ [EffectsNext]_effectsVars /\ [DashboardNext]_boardVars
          /\ [PlanNext]_planVars
    BY DEF ServicesNext, ServicesVars
  <1> QED
    BY <1>1, <1>2, PTL
    DEF ServicesSpec, NotifierSpec, MenuSpec, AdSpec, AddressSpec, PricingSpec, ConfigSpec,
        ReconciliationSpec, CustomersSpec, MatchSpec, EffectsSpec, DashboardSpec, PlanSpec

(* Theorem: type correctness of all services, whichever is in focus.       *)
THEOREM ServicesTypeCorrect == ServicesSpec => []ServicesTypeOK
  <1>1. /\ NotifierTypeOK /\ MenuTypeOK /\ AdTypeOK /\ AddressTypeOK /\ PricingTypeOK
        /\ ConfigTypeOK /\ ReconciliationTypeOK /\ CustomersTypeOK /\ MatchTypeOK
        /\ EffectsTypeOK /\ DashboardTypeOK /\ PlanTypeOK
        => ServicesTypeOK
    BY DEF ServicesTypeOK
  <1> QED
    BY <1>1, PartsBehave, NotifierTypeCorrect, MenuTypeCorrect, AdTypeCorrect,
       AddressTypeCorrect, PricingTypeCorrect, ConfigTypeCorrect, ReconciliationTypeCorrect,
       CustomersTypeCorrect, MatchTypeCorrect, EffectsTypeCorrect, DashboardTypeCorrect,
       PlanTypeCorrect, PTL
=============================================================================
