SPECIFICATION Spec
CONSTANTS
    Tasks = {t1, t2, t3}
    Channels = {c1, c2}
    HookIds = {h1, h2, h3}
    None = None
INVARIANTS
    TypeOK
    OneWebhookPerChannel
PROPERTY CallsReturn
