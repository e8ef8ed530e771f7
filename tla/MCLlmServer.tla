---------------------------- MODULE MCLlmServer ----------------------------
EXTENDS LlmServer, TLC
CONSTANTS c1, c2, qwen, llava, vllm60, ollama

MCModelOf == c1 :> qwen @@ c2 :> llava
=============================================================================
