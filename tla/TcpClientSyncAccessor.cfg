SPECIFICATION FairSpec
CONSTANTS
  Local = {main1, handler}
  Handlers = {handler}
  Remote = {main0}
  Worker = Worker
  Nobody = Nobody
INVARIANTS
  TypeOK
  Exclusive
PROPERTIES
  ImplementsAtomic
  CallReturns
