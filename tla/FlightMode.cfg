SPECIFICATION FairSpec
INVARIANTS OneInCharge OneLateWrite TargetFromTakeover
PROPERTIES SwitchObeyed
