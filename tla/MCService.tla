----------------------------- MODULE MCService -----------------------------
(* One application, two slots and two cards; the application is a system *)
(* application with every permission, or one with none.                  *)
EXTENDS CellularDataClient
MCCapability == <<"internet">>
Budget(changes, faults, calls) == [changes |-> changes, faults |-> faults, calls |-> calls]
MCBoot == {Budget(2, 0, 0), Budget(1, 1, 0)}
MCRest == {Budget(0, 1, 1), Budget(1, 0, 2), Budget(4, 0, 0)}
MCCallers == {[system |-> TRUE, granted |-> {"GET_NETWORK_INFO", "SET_TELEPHONY_STATE",
                 "GET_TELEPHONY_STATE", "MANAGE_APN_SETTING"}, policy |-> TRUE],
              [system |-> FALSE, granted |-> {}, policy |-> TRUE]}
MCApis == {NapiEnableCellularData, NapiDisableCellularData, NapiIsCellularDataEnabled,
           NapiEnableCellularDataRoaming, NapiDisableCellularDataRoaming,
           NapiIsCellularDataRoamingEnabled, NapiSetDefaultCellularDataSlotId,
           NapiGetDefaultCellularDataSlotId, NapiQueryApnIds, NapiQueryAllApns, NapiGetActiveApnName,
           NapiGetCellularDataState, NapiGetCellularDataFlowType, NapiSetPreferredApn,
           NapiEnableIntelligenceSwitch, NapiGetIntelligenceSwitchState, NapiGetDefaultCellularDataSimId}
=============================================================================
