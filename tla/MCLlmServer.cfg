CONSTANTS
  c1 = c1
  c2 = c2
  qwen = qwen
  llava = llava
  vllm60 = vllm60
  ollama = ollama
  Client = {c1, c2}
  Model = {qwen, llava}
  ModelOf <- MCModelOf
  Config = {vllm60, ollama}
  Vllm = {vllm60}
  Reaped = {vllm60}
  MaxEdits = 1
  MaxFaults = 1
  None = None
SPECIFICATION LlmSpec
PROPERTIES IdleStopSparesRequests IdleServerIsStopped ConfigTakesEffect
